---------------------------- MODULE Spec2Model ----------------------------
(***************************************************************************)
(* A model of api/build-bundle.js (BundleBot): the in-memory TTL cache,    *)
(* the provider adapters, the source fallback chain (searchProducts), the  *)
(* candidate aggregator (getCandidatesFromSpec), the spec normaliser       *)
(* (safeGetSpecFromAI), the bundle composer (composeBundle) and the HTTP   *)
(* handler.                                                                *)
(*                                                                         *)
(* Money is counted in mills (1/1000 USD) so that amounts finer than a     *)
(* cent exist and Number(total.toFixed(2)) is a real rounding step.  The   *)
(* amounts used are even numbers of mills, so no sum ever sits exactly on  *)
(* a rounding tie (where the binary representation of the JavaScript       *)
(* number, not its decimal value, would decide).  Arithmetic on amounts is *)
(* exact.  Time is counted in milliseconds, as Date.now() does.            *)
(***************************************************************************)
EXTENDS Integers, Sequences, FiniteSets, TLC

VARIABLES
    \* ---- composeBundle ----
    spec,        \* the Spec handed to composeBundle: budget, max_items, must_have
    candidates,  \* the candidate pool (a sequence; a candidate is its position)
    selected,    \* composeBundle's `selected`: positions of the pool, in pick order
    total,       \* composeBundle's running `total`
    cpc,         \* where composeBundle is: "coverage", "fill", "done"
    catI,        \* coverage pass: index of the must_have category being served
    optI,        \* index of the next option (coverage) or remaining item (fill)
    remaining,   \* fill pass: the sorted list of not yet selected positions
    nCov,        \* number of items selected when the coverage pass ended
    bundle,      \* the returned bundle (NoBundle until composeBundle returns)
    earlier,     \* the bundles that earlier calls on the same spec and pool returned
    \* ---- the cache ----
    CACHE,       \* the Map: key -> NoEntry or [ts, data]
    now,         \* Date.now()
    ticks,       \* how often the clock has been advanced (bounds the model)
    lastGet,     \* the last getCache call made directly: its key, time and result, and
                 \* the setCache call for that key that preceded it; or NoCall
    lastSet,     \* per key, the last setCache call made directly: its time and data, and
                 \* the entry it wrote over; or NoCall
    \* ---- searchProducts ----
    env,         \* process.env: which of the four credentials are set
    scall,       \* a searchProducts call made directly: see newCall
    \* ---- getCandidatesFromSpec ----
    req,         \* per request, its getCandidatesFromSpec call: see idleReq
    writes,      \* the setCache calls made by getCandidatesFromSpec: [by, key, at, data]
    \* ---- a provider adapter called on its own ----
    acall,       \* the call: see AdapterCalls
    arun,        \* an apifyRetailSearch call followed step by step: see idleRun
    \* ---- safeGetSpecFromAI ----
    ncall,       \* the call: see NormCalls
    \* ---- handler ----
    http         \* the request being handled: see idleHttp

composeVars == <<spec, candidates, selected, total, cpc, catI, optI, remaining, nCov, bundle, earlier>>

cacheVars == <<CACHE, now, ticks, lastGet, lastSet>>

searchVars == <<env, scall>>

aggVars == <<req, writes>>

adapterVars == <<acall, arun>>

normVars == <<ncall>>

handlerVars == <<http>>

vars == <<composeVars, cacheVars, searchVars, aggVars, adapterVars, normVars, handlerVars>>

\* what the actions of one part leave alone
notCompose == <<cacheVars, searchVars, aggVars, adapterVars, normVars, handlerVars>>

notCache == <<composeVars, searchVars, aggVars, adapterVars, normVars, handlerVars>>

notSearch == <<composeVars, cacheVars, aggVars, adapterVars, normVars, handlerVars>>

\* getCandidatesFromSpec reads env and the clock, and reads and writes CACHE
notAgg == <<composeVars, env, scall, now, ticks, lastGet, lastSet, adapterVars, normVars, handlerVars>>

notAdapter == <<composeVars, cacheVars, searchVars, aggVars, normVars, handlerVars>>

\* apifyRetailSearch reads the clock, which advances while it waits
notApify == <<composeVars, CACHE, ticks, lastGet, lastSet, searchVars, aggVars, acall, normVars, handlerVars>>

notNorm == <<composeVars, cacheVars, searchVars, aggVars, adapterVars, handlerVars>>

----------------------------------------------------------------------------
(* Generic helpers *)

Range(s) == {s[i] : i \in 1..Len(s)}

Min(a, b) == IF a <= b THEN a ELSE b

Max(a, b) == IF a >= b THEN a ELSE b

\* All sequences over S of length 0..n
SeqsUpTo(S, n) == UNION {[1..k -> S] : k \in 0..n}

----------------------------------------------------------------------------
(* Values *)

\* NaN, the one non-finite number the program meets: a value apart from every amount
NaN == -999999999

isFinite(x) == x # NaN

\* Number(x.toFixed(2)): the nearest whole cent, a tie going away from zero
toFixed2(x) ==
    IF x >= 0 THEN ((x + 5) \div 10) * 10 ELSE -(((-x + 5) \div 10) * 10)

NoBundle == [title |-> <<"none">>]

\* A value that is null or an array: null, and the array holding the list s
Null == [null |-> TRUE, list |-> <<>>]

Arr(s) == [null |-> FALSE, list |-> s]

\* `!x` is false for every array, the empty one included
Truthy(x) == ~x.null

\* `x?.length` as a condition
HasLength(x) == ~x.null /\ Len(x.list) > 0

----------------------------------------------------------------------------
(* Utils: parsePrice *)

\* A string is a sequence of one-character strings.
Digits == {"0", "1", "2", "3", "4", "5", "6", "7", "8", "9"}

DigitVal(c) ==
    CASE c = "0" -> 0 [] c = "1" -> 1 [] c = "2" -> 2 [] c = "3" -> 3 [] c = "4" -> 4
      [] c = "5" -> 5 [] c = "6" -> 6 [] c = "7" -> 7 [] c = "8" -> 8 [] c = "9" -> 9

\* the value of a run of digits
RECURSIVE DigitsVal(_)
DigitsVal(ds) ==
    IF ds = <<>> THEN 0 ELSE DigitsVal(SubSeq(ds, 1, Len(ds) - 1)) * 10 + DigitVal(ds[Len(ds)])

\* the longest run of digits at the start of s
RECURSIVE LeadingDigits(_)
LeadingDigits(s) ==
    IF s # <<>> /\ Head(s) \in Digits THEN <<Head(s)>> \o LeadingDigits(Tail(s)) ELSE <<>>

\* s from its first digit on (empty when s holds no digit)
RECURSIVE FromFirstDigit(_)
FromFirstDigit(s) ==
    IF s = <<>> \/ Head(s) \in Digits THEN s ELSE FromFirstDigit(Tail(s))

\* a fraction's digits as mills: the first three digits, padded with zeros
\* (the strings of the model carry at most three decimals)
FractionMills(ds) ==
    LET d(i) == IF i <= Len(ds) THEN DigitVal(ds[i]) ELSE 0
    IN d(1) * 100 + d(2) * 10 + d(3)

\* a raw price field of an upstream row: absent, a JSON number (in mills), or a JSON string
RawAbsent == [t |-> "absent", n |-> 0, chars |-> <<>>]

RawNum(n) == [t |-> "num", n |-> n, chars |-> <<>>]

RawStr(cs) == [t |-> "str", n |-> 0, chars |-> cs]

\* `r.price || ... || ''`: a missing field, the number 0 and the empty string become ''
OrEmpty(raw) ==
    IF raw.t = "absent" \/ (raw.t = "num" /\ raw.n = 0) \/ (raw.t = "str" /\ raw.chars = <<>>)
    THEN RawStr(<<>>) ELSE raw

\* function parsePrice(p){ if (typeof p==='number') return p;
\*   const s=String(p||'').replace(/[, ]/g,''); const m=s.match(/(\d+(\.\d+)?)/);
\*   return m?Number(m[1]):NaN; }
parsePrice(p) ==
    IF p.t = "num" THEN p.n
    ELSE LET NotSep(c) == c \notin {",", " "}
             s    == SelectSeq(p.chars, NotSep)
             rest == FromFirstDigit(s)
             int  == LeadingDigits(rest)
             aft  == SubSeq(rest, Len(int) + 1, Len(rest))
             frac == IF aft # <<>> /\ Head(aft) = "." THEN LeadingDigits(Tail(aft)) ELSE <<>>
         IN IF int = <<>> THEN NaN
            ELSE DigitsVal(int) * 1000 + FractionMills(frac)

----------------------------------------------------------------------------
(* Provider adapters *)

\* arr.slice(0, n)
slice0(s, n) ==
    IF n >= 0 THEN SubSeq(s, 1, Min(n, Len(s))) ELSE SubSeq(s, 1, Max(Len(s) + n, 0))

\* An upstream row, with the field-name variants of one attribute taken as one field:
\* name is `r.title || r.name || r.product_title`, link is `r.link || r.product_link || r.url`,
\* "" standing for a field that is missing or empty.
Row(name, price, link) == [name |-> name, price |-> price, link |-> link]

\* the map step: { name, price, link, image, reason, source }
\* (image and reason, which no operation reads, are left out of a candidate)
normalizeRow(r, source) ==
    [name   |-> IF r.name # "" THEN <<r.name>> ELSE <<"Item">>,
     price  |-> parsePrice(OrEmpty(r.price)),
     link   |-> IF r.link # "" THEN r.link ELSE "#",
     source |-> source]

\* .filter(i => isFinite(i.price) && i.link && i.name)
keepItem(i) == isFinite(i.price) /\ i.link # "" /\ i.name # <<"">>

\* stable ascending sort of a list of candidates by price
RECURSIVE InsertItem(_, _)
InsertItem(x, s) ==
    IF s = <<>> THEN <<x>>
    ELSE IF Head(s).price <= x.price THEN <<Head(s)>> \o InsertItem(x, Tail(s))
    ELSE <<x>> \o s

RECURSIVE SortItems(_)
SortItems(s) ==
    IF s = <<>> THEN <<>> ELSE InsertItem(s[Len(s)], SortItems(SubSeq(s, 1, Len(s) - 1)))

\* rows.map(...).filter(...).slice(0, limit), the sort left out
normalizeRowsNoSort(rows, limit, source) ==
    LET mapped == [i \in 1..Len(rows) |-> normalizeRow(rows[i], source)]
    IN slice0(SelectSeq(mapped, keepItem), limit)

\* rows.map(...).filter(...).sort((a,b)=>a.price-b.price).slice(0, limit)
normalizeRows(rows, limit, source) ==
    LET mapped == [i \in 1..Len(rows) |-> normalizeRow(rows[i], source)]
    IN slice0(SortItems(SelectSeq(mapped, keepItem)), limit)

\* what an adapter call comes to: a rejection, or a list
Throws == [throws |-> TRUE, list |-> <<>>]

Returns(l) == [throws |-> FALSE, list |-> l]

\* The upstream's answer to the RapidAPI request: the fetch fails ("neterr"), the
\* status is not ok ("status"), the body is not JSON ("badjson"), or it is JSON whose
\* results / shopping_results / data holds `rows` (no such field: rows = <<>>).
RapidResp(kind, rows) == [kind |-> kind, rows |-> rows]

rapidApiGoogleShopping(query, limit, resp) ==
    IF resp.kind \in {"neterr", "status", "badjson"} THEN Throws
    ELSE Returns(normalizeRows(resp.rows, limit, "rapidapi"))

\* The remote Apify job as the adapter sees it: the start request is refused
\* ("startfail") or carries no run id ("norunid"); the job ends FAILED, ABORTED or
\* TIMED_OUT ("failed"); it is still running at the deadline ("timeout"); a status
\* poll is refused ("pollfail"); it SUCCEEDED without a dataset id ("nodataset");
\* or it SUCCEEDED and the dataset holds `rows` ("succeeded").
ApifyRun(kind, rows) == [kind |-> kind, rows |-> rows]

apifyRetailSearch(query, limit, run) ==
    IF run.kind = "succeeded" THEN Returns(normalizeRows(run.rows, limit, "apify"))
    ELSE Throws

\* apifyRetailSearch, await by await.  A call is at "loop" (about to test the loop
\* condition), "poll" (the wait is over, the status request is out), "dataset" (the
\* dataset request is out), "returned" or "threw".
maxWaitMs == 15000

intervalMs == 1200

\* polls: status requests answered so far; seen, seenAt: the status the last answered
\* poll carried ("" if none was read) and the time it was read; fetched: dataset
\* requests made; hasDs: that poll reported SUCCEEDED with a defaultDatasetId;
\* aborted: the client of the enclosing request has gone away
idleRun ==
    [at |-> "idle", limit |-> 0, t0 |-> 0, polls |-> 0, seen |-> "", seenAt |-> 0,
     hasDs |-> FALSE, fetched |-> 0, aborted |-> FALSE, out |-> Throws]

\* the start request is answered at time t: `if (!start.ok) throw`, `if (!runId) throw`,
\* `t0 = Date.now()`
apifyOnStart(limit, start, t) ==
    IF start.ok /\ start.runId
    THEN [idleRun EXCEPT !.at = "loop", !.limit = limit, !.t0 = t]
    ELSE [idleRun EXCEPT !.at = "threw", !.limit = limit]

\* while (Date.now() - t0 < maxWaitMs)
apifyLoops(r, t) == t - r.t0 < maxWaitMs

\* a refused status request is tried again on the next iteration
apifyOnPollRetries(r, ans, t) ==
    IF ~ans.ok THEN [r EXCEPT !.at = "loop", !.polls = @ + 1, !.seen = ""]
    ELSE [r EXCEPT
            !.polls = @ + 1, !.seen = ans.status, !.seenAt = t,
            !.hasDs = ans.status = "SUCCEEDED" /\ ans.dsId,
            !.at = IF ans.status = "SUCCEEDED"
                   THEN (IF ans.dsId THEN "dataset" ELSE "threw")
                   ELSE IF ans.status \in {"FAILED", "ABORTED", "TIMED_OUT"} THEN "threw"
                   ELSE "loop"]

\* a status request is answered at time t: `if (!runResp.ok) break`, then the status
\* is read; SUCCEEDED goes on to the dataset unless `!dsId`; FAILED, ABORTED and
\* TIMED_OUT break; anything else loops.  After the loop: throw.
apifyOnPoll(r, ans, t) ==
    IF ~ans.ok THEN [r EXCEPT !.at = "threw", !.polls = @ + 1, !.seen = ""]
    ELSE [r EXCEPT
            !.polls = @ + 1, !.seen = ans.status, !.seenAt = t,
            !.hasDs = ans.status = "SUCCEEDED" /\ ans.dsId,
            !.at = IF ans.status = "SUCCEEDED"
                   THEN (IF ans.dsId THEN "dataset" ELSE "threw")
                   ELSE IF ans.status \in {"FAILED", "ABORTED", "TIMED_OUT"} THEN "threw"
                   ELSE "loop"]

\* the dataset request is answered: `await ds.json()` rejects on a body that is not
\* JSON; a body that is not an array counts as no rows
apifyOnDataset(r, ds) ==
    IF ds.kind = "badjson" THEN [r EXCEPT !.at = "threw", !.fetched = @ + 1]
    ELSE [r EXCEPT !.at = "returned", !.fetched = @ + 1,
                   !.out = Returns(normalizeRows(ds.rows, r.limit, "apify"))]

----------------------------------------------------------------------------
(* searchProducts: RapidAPI primary, optional Apify fallback, demo fallback *)

\* process.env: TRUE for a credential that is set
Envs == [RAPIDAPI_KEY : BOOLEAN, RAPIDAPI_HOST : BOOLEAN,
         APIFY_TOKEN : BOOLEAN, APIFY_ACTOR_ID : BOOLEAN]

\* the host is not looked at
RAPIDAPI_ENABLED_KeyOnly(e) == e.RAPIDAPI_KEY

\* !!(RAPIDAPI_KEY && RAPIDAPI_HOST)
RAPIDAPI_ENABLED(e) == e.RAPIDAPI_KEY /\ e.RAPIDAPI_HOST

APIFY_ENABLED(e) == e.APIFY_TOKEN /\ e.APIFY_ACTOR_ID

\* capitalize(s): s.replace(/\b\w/g, m => m.toUpperCase()), on the queries of the model
capitalize(q) ==
    CASE q = "bedding" -> "Bedding"
      [] q = "Bedding" -> "Bedding"
      [] q = "lighting" -> "Lighting"
      [] q = "storage" -> "Storage"
      [] q = "desk accessories" -> "Desk Accessories"
      [] q = "fan" -> "Fan"
      [] q = "laundry" -> "Laundry"
      [] q = "bath" -> "Bath"
      [] q = "kitchen" -> "Kitchen"
      [] q = "decor" -> "Decor"
      [] q = "rug" -> "Rug"
      [] OTHER -> q

\* the three demo candidates, as written in the code (a name is its template's pieces)
demoItems(query) ==
    << [name |-> <<capitalize(query), " - Option A">>, price |-> 24990,
        link |-> "https://example.com/a", source |-> "demo"],
       [name |-> <<capitalize(query), " - Option B">>, price |-> 32500,
        link |-> "https://example.com/b", source |-> "demo"],
       [name |-> <<capitalize(query), " - Option C">>, price |-> 18750,
        link |-> "https://example.com/c", source |-> "demo"] >>

\* mutant: the demo list is not cut to limit
demoFallbackNoSlice(query, limit) == SortItems(demoItems(query))

\* mutant: the demo list is cut to limit but left in the order written
demoFallbackNoSort(query, limit) == slice0(demoItems(query), limit)

\* [...].slice(0, limit).sort((a,b)=>a.price-b.price)
demoFallback(query, limit) == SortItems(slice0(demoItems(query), limit))

\* A searchProducts call: where it is ("rapid": awaiting the primary adapter, "apify":
\* awaiting the secondary, "returned"), the adapters it has called and what each
\* call came to ("throw", "empty", "list"), its result, and whether it rejected.
newCall(query, limit) ==
    [query |-> query, limit |-> limit, at |-> "idle", calls |-> <<>>, got |-> <<>>,
     lists |-> <<>>, result |-> <<>>, threw |-> FALSE]

outcomeOf(out) == IF out.throws THEN "throw" ELSE IF out.list = <<>> THEN "empty" ELSE "list"

\* .catch(() => null)
catchNull(out) == IF out.throws THEN Null ELSE Arr(out.list)

\* step 3: return the demo list
searchDemo(c) == [c EXCEPT !.at = "returned", !.result = demoFallback(c.query, c.limit)]

\* step 2: if (APIFY_ENABLED()) call apifyRetailSearch, else fall to step 3
searchToApify(c, e) ==
    IF APIFY_ENABLED(e) THEN [c EXCEPT !.at = "apify", !.calls = Append(@, "apify")]
    ELSE searchDemo(c)

\* both adapters are called at once when both are configured
searchBeginBoth(query, limit, e) ==
    IF RAPIDAPI_ENABLED(e)
    THEN [newCall(query, limit) EXCEPT
            !.at = "rapid",
            !.calls = IF APIFY_ENABLED(e) THEN <<"rapid", "apify">> ELSE <<"rapid">>]
    ELSE searchToApify(newCall(query, limit), e)

\* step 1: if (RAPIDAPI_ENABLED()) call the primary adapter, else fall to step 2
searchBegin(query, limit, e) ==
    IF RAPIDAPI_ENABLED(e)
    THEN [newCall(query, limit) EXCEPT !.at = "rapid", !.calls = <<"rapid">>]
    ELSE searchToApify(newCall(query, limit), e)

\* mutant: the primary adapter's rejection is not caught and rejects searchProducts
searchOnRapidNoCatch(c, e, out) ==
    LET c1 == [c EXCEPT !.got = Append(@, outcomeOf(out)), !.lists = Append(@, out.list)]
    IN IF out.throws THEN [c1 EXCEPT !.at = "returned", !.threw = TRUE]
       ELSE IF out.list # <<>> THEN [c1 EXCEPT !.at = "returned", !.result = out.list]
       ELSE searchToApify(c1, e)

\* const rapid = await rapidApiGoogleShopping(...).catch(() => null); if (rapid?.length) return rapid;
searchOnRapid(c, e, out) ==
    LET rapid == catchNull(out)
        c1 == [c EXCEPT !.got = Append(@, outcomeOf(out)), !.lists = Append(@, out.list)]
    IN IF HasLength(rapid) THEN [c1 EXCEPT !.at = "returned", !.result = rapid.list]
       ELSE searchToApify(c1, e)

\* the demo list is returned whatever the secondary adapter came to
searchOnApifyDemoAnyway(c, out) ==
    searchDemo([c EXCEPT !.got = Append(@, outcomeOf(out)), !.lists = Append(@, out.list)])

\* const apify = await apifyRetailSearch(...).catch(() => null); if (apify?.length) return apify;
searchOnApify(c, out) ==
    LET apify == catchNull(out)
        c1 == [c EXCEPT !.got = Append(@, outcomeOf(out)), !.lists = Append(@, out.list)]
    IN IF HasLength(apify) THEN [c1 EXCEPT !.at = "returned", !.result = apify.list]
       ELSE searchDemo(c1)

\* bounds and inputs of the direct calls
MaxLimit == 4

Queries == {"bedding", "desk accessories"}

\* upstream rows: well-formed ones
RowLamp == Row("Lamp", RawStr(<<"$", "2", "4", ".", "9", "9">>), "https://shop/lamp")

RowHooks == Row("Hooks", RawNum(12990), "https://shop/hooks")

RowSet == Row("Bedding Set", RawStr(<<"7", "9", ".", "9", "9", " ", "U", "S", "D">>), "https://shop/set")

RowFan == Row("Fan", RawNum(31000), "https://shop/fan")

RowRug == Row("Rug", RawNum(45500), "https://shop/rug")

\* a row with no usable price
RowNoPrice == Row("Mystery", RawStr(<<"c", "a", "l", "l">>), "https://shop/mystery")

\* the row lists the upstream answers with
SearchRowLists ==
    { <<>>, <<RowNoPrice>>, <<RowLamp>>, <<RowSet, RowLamp, RowHooks>>,
      <<RowSet, RowLamp, RowHooks, RowFan, RowRug>> }

RapidResponses ==
    {RapidResp(k, <<>>) : k \in {"neterr", "status", "badjson"}}
    \cup {RapidResp("json", rows) : rows \in SearchRowLists}

ApifyRuns ==
    {ApifyRun(k, <<>>) : k \in {"startfail", "norunid", "failed", "timeout", "pollfail", "nodataset"}}
    \cup {ApifyRun("succeeded", rows) : rows \in SearchRowLists}

SearchIdle ==
    /\ env = [RAPIDAPI_KEY |-> FALSE, RAPIDAPI_HOST |-> FALSE,
              APIFY_TOKEN |-> FALSE, APIFY_ACTOR_ID |-> FALSE]
    /\ scall = newCall("", 0)

SearchInit ==
    /\ env \in Envs
    /\ scall = newCall("", 0)

\* searchProducts({ query, limit }) is called
SearchCall ==
    /\ scall.at = "idle"
    /\ \E q \in Queries, l \in 1..MaxLimit : scall' = searchBegin(q, l, env)
    /\ UNCHANGED <<env, notSearch>>

\* the primary adapter's promise settles
SearchRapidReturns ==
    /\ scall.at = "rapid"
    /\ \E resp \in RapidResponses :
          scall' = searchOnRapid(scall, env, rapidApiGoogleShopping(scall.query, scall.limit, resp))
    /\ UNCHANGED <<env, notSearch>>

\* the secondary adapter's promise settles
SearchApifyReturns ==
    /\ scall.at = "apify"
    /\ \E run \in ApifyRuns :
          scall' = searchOnApify(scall, apifyRetailSearch(scall.query, scall.limit, run))
    /\ UNCHANGED <<env, notSearch>>

----------------------------------------------------------------------------
(* A provider adapter called on its own, on every row list of a bounded set *)

MaxRows == 2

\* rows with and without a name, a link and a usable price, and two complete rows
\* whose price is negative: the number -5 and the string "-5"
AdapterRows ==
    { Row(n, p, l) : n \in {"", "Lamp"}, l \in {"", "https://shop/x"},
                     p \in { RawAbsent, RawNum(13990),
                             RawStr(<<"$", "2", "4", ".", "9", "9">>),
                             RawStr(<<"c", "a", "l", "l">>) } }
    \cup { Row("Lamp", RawNum(-5000), "https://shop/x"),
           Row("Lamp", RawStr(<<"-", "5">>), "https://shop/x") }

AdapterRowLists == SeqsUpTo(AdapterRows, MaxRows)

\* a call of one adapter: the upstream's answer, the limit, and what the call came to
AdapterCalls ==
    [adapter : {"rapid"}, limit : 1..MaxLimit, at : {"called"}, out : {Throws},
     resp : {RapidResp(k, <<>>) : k \in {"neterr", "status", "badjson"}}
            \cup {RapidResp("json", rows) : rows \in AdapterRowLists}]
    \cup
    [adapter : {"apify"}, limit : 1..MaxLimit, at : {"called"}, out : {Throws},
     resp : {ApifyRun(k, <<>>) : k \in {"startfail", "failed", "timeout"}}
            \cup {ApifyRun("succeeded", rows) : rows \in AdapterRowLists}]

AdapterIdle ==
    /\ acall = [adapter |-> "none", limit |-> 0, at |-> "idle", out |-> Throws,
                resp |-> RapidResp("none", <<>>)]
    /\ arun = idleRun

AdapterInit == acall \in AdapterCalls /\ arun = idleRun

\* the adapter's promise settles
AdapterSettles ==
    /\ acall.at = "called"
    /\ acall' = [acall EXCEPT
                   !.at = "returned",
                   !.out = IF acall.adapter = "rapid"
                           THEN rapidApiGoogleShopping("lamp", acall.limit, acall.resp)
                           ELSE apifyRetailSearch("lamp", acall.limit, acall.resp)]
    /\ UNCHANGED <<arun, notAdapter>>

----------------------------------------------------------------------------
(* apifyRetailSearch followed through its polling loop *)

\* how long a request takes to be answered
ApifyLatencies == {0, 300}

ApifyStarts == [ok : BOOLEAN, runId : BOOLEAN]

\* the answer to a status request
ApifyAnswers ==
    {[ok |-> FALSE, status |-> "", dsId |-> FALSE]}
    \cup [ok : {TRUE}, status : {"READY", "RUNNING", "SUCCEEDED", "FAILED", "ABORTED", "TIMED_OUT"},
          dsId : BOOLEAN]

\* the answer to the dataset request: a body that is not JSON, no rows, or three
\* rows of which one has no price
ApifyDatasets ==
    {[kind |-> "badjson", rows |-> <<>>]}
    \cup {[kind |-> "json", rows |-> rows] : rows \in {<<>>, <<RowSet, RowLamp, RowNoPrice>>}}

\* the call is made and the start request is answered
ApifyCall ==
    /\ arun.at = "idle"
    /\ \E limit \in 1..MaxLimit, start \in ApifyStarts, lat \in ApifyLatencies :
          /\ now' = now + lat
          /\ arun' = apifyOnStart(limit, start, now + lat)
    /\ UNCHANGED notApify

\* the loop condition holds: await wait(intervalMs), then the status request goes out
ApifyWait ==
    /\ arun.at = "loop"
    /\ apifyLoops(arun, now)
    /\ now' = now + intervalMs
    /\ arun' = [arun EXCEPT !.at = "poll"]
    /\ UNCHANGED notApify

\* the loop condition fails: throw new Error('Apify run did not complete in time')
ApifyTimesOut ==
    /\ arun.at = "loop"
    /\ ~apifyLoops(arun, now)
    /\ arun' = [arun EXCEPT !.at = "threw"]
    /\ UNCHANGED <<now, notApify>>

\* the status request is answered
ApifyPoll ==
    /\ arun.at = "poll"
    /\ \E ans \in ApifyAnswers, lat \in ApifyLatencies :
          /\ now' = now + lat
          /\ arun' = apifyOnPoll(arun, ans, now + lat)
    /\ UNCHANGED notApify

\* the dataset request is answered
ApifyDataset ==
    /\ arun.at = "dataset"
    /\ \E ds \in ApifyDatasets, lat \in ApifyLatencies :
          /\ now' = now + lat
          /\ arun' = apifyOnDataset(arun, ds)
    /\ UNCHANGED notApify

\* The enclosing request is aborted while the call is in its polling loop.  Neither
\* the handler nor apifyRetailSearch registers anything for that event: fetch is
\* called without a signal and wait(ms) is a bare setTimeout whose timer is never
\* cleared, so the call's own state is left as it is.
ApifyAbort ==
    /\ arun.at \in {"loop", "poll"}
    /\ ~arun.aborted
    /\ arun' = [arun EXCEPT !.aborted = TRUE]
    /\ UNCHANGED <<now, notApify>>

----------------------------------------------------------------------------
(* The in-memory cache *)

\* const TTL_MS = 45 * 60 * 1000
TTL_MS == 45 * 60 * 1000

\* CACHE.get(key) of a key never set (undefined)
NoEntry == [ts |-> -1, data |-> <<>>]

\* no call made yet
NoCall ==
    [at |-> -1, key |-> "", data |-> <<>>, result |-> Null, setAt |-> -1,
     over |-> [ts |-> -1, data |-> <<>>]]

\* `q:${cat.toLowerCase()}|l:3`: a key is the lower-cased category (the limit part is fixed)
CacheKeys ==
    {"bedding", "lighting", "storage", "desk accessories", "fan", "laundry", "bath",
     "kitchen", "decor", "rug"}

\* the keys of the direct cache calls
DirectKeys == {"bedding", "lighting"}

\* the lists stored in the direct cache calls of SpecCache
CacheValues == {<<[name |-> "Lamp", price |-> 24990]>>,
                <<[name |-> "Hooks", price |-> 12990], [name |-> "Lamp", price |-> 24990]>>}

\* the clock advances by one millisecond or by just under the TTL
TickSteps == {1, TTL_MS - 1}

MaxTicks == 2

\* mutant: an entry never expires
getCacheNoExpiry(cache, key, t) ==
    LET v == cache[key]
    IN IF v # NoEntry THEN Arr(v.data) ELSE Null

\* an entry is still served at the age of exactly TTL_MS
getCacheInclusive(cache, key, t) ==
    LET v == cache[key]
    IN IF v # NoEntry /\ (t - v.ts <= TTL_MS) THEN Arr(v.data) ELSE Null

\* const v = CACHE.get(key); return v && (Date.now()-v.ts<TTL_MS) ? v.data : null;
getCache(cache, key, t) ==
    LET v == cache[key]
    IN IF v # NoEntry /\ (t - v.ts < TTL_MS) THEN Arr(v.data) ELSE Null

\* mutant: a write onto an existing entry keeps that entry's list and adds the new one to it
setCacheMerge(cache, key, data, t) ==
    [cache EXCEPT ![key] = [ts |-> t, data |-> IF @ = NoEntry THEN data ELSE @.data \o data]]

\* CACHE.set(key, { ts: Date.now(), data })
setCache(cache, key, data, t) == [cache EXCEPT ![key] = [ts |-> t, data |-> data]]

CacheInit ==
    /\ CACHE = [k \in CacheKeys |-> NoEntry]
    /\ now = 0
    /\ ticks = 0
    /\ lastGet = NoCall
    /\ lastSet = [k \in CacheKeys |-> NoCall]

\* time passes
Tick ==
    /\ ticks < MaxTicks
    /\ \E d \in TickSteps : now' = now + d
    /\ ticks' = ticks + 1
    /\ UNCHANGED <<CACHE, lastGet, lastSet, notCache>>

\* a call setCache(key, data)
CacheSet ==
    /\ \E k \in DirectKeys, d \in CacheValues :
          /\ CACHE' = setCache(CACHE, k, d, now)
          /\ lastSet' = [lastSet EXCEPT ![k] = [NoCall EXCEPT !.at = now, !.key = k, !.data = d,
                                                              !.over = CACHE[k]]]
    /\ UNCHANGED <<now, ticks, lastGet, notCache>>

\* a call getCache(key) that deletes the entry it finds expired and stamps the entry
\* it returns with the time of the read
CacheGetTouches ==
    /\ \E k \in DirectKeys :
          /\ lastGet' = [NoCall EXCEPT !.at = now, !.key = k,
                                      !.result = getCache(CACHE, k, now),
                                      !.setAt = lastSet[k].at, !.data = lastSet[k].data,
                                      !.over = lastSet[k].over]
          /\ CACHE' = IF CACHE[k] = NoEntry THEN CACHE
                      ELSE IF now - CACHE[k].ts < TTL_MS
                           THEN [CACHE EXCEPT ![k] = [ts |-> now, data |-> @.data]]
                           ELSE [CACHE EXCEPT ![k] = NoEntry]
    /\ UNCHANGED <<now, ticks, lastSet, notCache>>

\* a call getCache(key)
CacheGet ==
    /\ \E k \in DirectKeys :
          lastGet' = [NoCall EXCEPT !.at = now, !.key = k,
                                   !.result = getCache(CACHE, k, now),
                                   !.setAt = lastSet[k].at, !.data = lastSet[k].data,
                                   !.over = lastSet[k].over]
    /\ UNCHANGED <<CACHE, now, ticks, lastSet, notCache>>

----------------------------------------------------------------------------
(* getCandidatesFromSpec: the cache-wrapped search, category by category *)

\* .slice(0, 8)
MaxCats == 8

\* searchProducts({ query: cat, limit: 3 }) and the `l:3` of the cache key
FetchLimit == 3

\* the overlapping requests of the model
Reqs == {1, 2}

\* [...new Set(cats)]: the first occurrence of each element, in order
RECURSIVE Dedupe(_)
Dedupe(s) ==
    IF s = <<>> THEN <<>>
    ELSE LET front == Dedupe(SubSeq(s, 1, Len(s) - 1))
         IN IF s[Len(s)] \in Range(front) THEN front ELSE Append(front, s[Len(s)])

\* cat.toLowerCase(), on the categories of the model
toLowerCase(cat) == IF cat = "Bedding" THEN "bedding" ELSE cat

\* spellings that differ only in letter case count as one category
uniqueCatsAnyCase(sp) ==
    LET all        == sp.must_have \o sp.nice_to_have
        IsFirst(p) == \A q \in 1..(p - 1) : toLowerCase(all[q]) # toLowerCase(all[p])
        firsts     == SelectSeq([p \in 1..Len(all) |-> p], IsFirst)
    IN slice0([j \in 1..Len(firsts) |-> all[firsts[j]]], MaxCats)

\* mutant: the working set is not cut to 8 categories
uniqueCatsNoCap(sp) == Dedupe(sp.must_have \o sp.nice_to_have)

\* const cats = [...must_have, ...nice_to_have]; const uniqueCats = [...new Set(cats)].slice(0, 8);
uniqueCats(sp) == slice0(Dedupe(sp.must_have \o sp.nice_to_have), MaxCats)

\* `q:${cat.toLowerCase()}|l:3`
cacheKey(cat) == toLowerCase(cat)

\* the items are passed on with an empty category
taggedBlank(items, cat) ==
    [j \in 1..Len(items) |->
        [name |-> items[j].name, price |-> items[j].price, link |-> items[j].link,
         source |-> items[j].source, category |-> ""]]

\* items.map(i => ({ ...i, category: cat }))
tagged(items, cat) ==
    [j \in 1..Len(items) |->
        [name |-> items[j].name, price |-> items[j].price, link |-> items[j].link,
         source |-> items[j].source, category |-> cat]]

\* A getCandidatesFromSpec call: where it is ("idle": not made yet, "loop": at the
\* head of the for loop, "rapid"/"apify": inside searchProducts awaiting that
\* adapter, "settled": awaiting the promise of a searchProducts call that has
\* already returned, "done": returned), its spec, uniqueCats, the loop index, `results`,
\* the search call of the current category, and three logs: the categories looked
\* up in the cache, those served from it, and those searchProducts was called for.
idleReq ==
    [pc |-> "idle", spec |-> [must_have |-> <<>>, nice_to_have |-> <<>>], cats |-> <<>>,
     i |-> 1, results |-> <<>>, call |-> newCall("", 0),
     looked |-> <<>>, hits |-> <<>>, searched |-> <<>>]

\* the specs of the overlapping requests: short lists with a repeated category
AggSpecs ==
    { [must_have |-> <<"bedding">>, nice_to_have |-> <<"lighting", "bedding">>],
      [must_have |-> <<>>, nice_to_have |-> <<"Bedding">>] }

\* the specs of a single request: the static fallback spec, ten distinct categories,
\* nine categories of which one is repeated and one differs in case only
AggLongSpecs ==
    { [must_have |-> <<"bedding", "lighting", "storage">>,
       nice_to_have |-> <<"desk accessories", "fan", "laundry">>],
      [must_have |-> <<"bedding", "lighting", "storage", "desk accessories", "fan">>,
       nice_to_have |-> <<"laundry", "bath", "kitchen", "decor", "rug">>],
      [must_have |-> <<"bedding", "lighting", "bedding", "storage", "fan">>,
       nice_to_have |-> <<"lighting", "Bedding", "laundry", "bath", "kitchen", "decor">>] }

AllCats ==
    UNION {Range(sp.must_have) \cup Range(sp.nice_to_have) : sp \in AggSpecs \cup AggLongSpecs}

\* what the upstreams answer to the requests of the aggregator
AggRapidResponses ==
    {RapidResp("status", <<>>), RapidResp("json", <<>>), RapidResp("json", <<RowSet, RowLamp, RowHooks>>)}

AggApifyRuns == {ApifyRun("timeout", <<>>), ApifyRun("succeeded", <<RowLamp>>)}

\* the request once searchProducts has settled for the current category:
\* items = await searchProducts(...).catch(() => []); results.push(...tagged)
aggAfterSearch(rq, c) ==
    LET items == IF c.threw THEN <<>> ELSE c.result
    IN [rq EXCEPT !.pc = "loop", !.call = c, !.i = @ + 1,
                  !.results = @ \o tagged(items, rq.cats[rq.i])]

\* the list is not stored
cacheAfterSearchNoStore(cache, rq, c, t) == cache

\* the category is written onto the candidates themselves, which the stored list shares
cacheAfterSearchInPlace(cache, rq, c, t) ==
    LET items == IF c.threw THEN <<>> ELSE c.result
    IN IF items # <<>>
       THEN setCache(cache, cacheKey(rq.cats[rq.i]), tagged(items, rq.cats[rq.i]), t)
       ELSE cache

\* if (items?.length) setCache(cacheKey, items)
cacheAfterSearch(cache, rq, c, t) ==
    LET items == IF c.threw THEN <<>> ELSE c.result
    IN IF items # <<>> THEN setCache(cache, cacheKey(rq.cats[rq.i]), items, t) ELSE cache

\* the request on a search call that has just been started: `await searchProducts(...)`
\* suspends getCandidatesFromSpec even when searchProducts has run to its return
\* without awaiting anything (no adapter configured)
aggOnBegin(rq, c) ==
    [rq EXCEPT !.pc = IF c.at = "returned" THEN "settled" ELSE c.at, !.call = c]

\* the request on a search call that has moved on
aggOnCall(rq, c) ==
    IF c.at = "returned" THEN aggAfterSearch(rq, c) ELSE [rq EXCEPT !.pc = c.at, !.call = c]

cacheOnCall(cache, rq, c, t) ==
    IF c.at = "returned" THEN cacheAfterSearch(cache, rq, c, t) ELSE cache

\* the setCache calls made so far, the one of this step included if it makes one
writesOnCall(ws, r, rq, c, t) ==
    IF c.at = "returned" /\ ~c.threw /\ c.result # <<>>
    THEN ws \cup {[by |-> r, key |-> cacheKey(rq.cats[rq.i]), at |-> t, data |-> c.result]}
    ELSE ws

\* the call as it enters the loop
aggStart(sp) == [idleReq EXCEPT !.pc = "loop", !.spec = sp, !.cats = uniqueCats(sp)]

AggIdle == req = [r \in Reqs |-> idleReq] /\ writes = {}

\* getCandidatesFromSpec(spec) is called by a request
AggCall(r) ==
    /\ req[r].pc = "idle"
    /\ \E sp \in AggSpecs : req' = [req EXCEPT ![r] = aggStart(sp)]
    /\ UNCHANGED <<CACHE, writes, notAgg>>

\* the same call made once every earlier request has returned: calls that do not
\* overlap
AggCallAfter(r) ==
    /\ \A q \in Reqs : q < r => req[q].pc = "done"
    /\ AggCall(r)

\* specs that name a category in two spellings
AggCaseSpecs ==
    { [must_have |-> <<"bedding">>, nice_to_have |-> <<"Bedding">>],
      [must_have |-> <<"Bedding", "lighting">>, nice_to_have |-> <<"bedding", "Bedding">>] }

\* the same call on such a spec, by the first request only
AggCallCase(r) ==
    /\ r = 1
    /\ req[r].pc = "idle"
    /\ \E sp \in AggCaseSpecs : req' = [req EXCEPT ![r] = aggStart(sp)]
    /\ UNCHANGED <<CACHE, writes, notAgg>>

\* the same call with a long category list, by the first request only
AggCallLong(r) ==
    /\ r = 1
    /\ req[r].pc = "idle"
    /\ \E sp \in AggLongSpecs : req' = [req EXCEPT ![r] = aggStart(sp)]
    /\ UNCHANGED <<CACHE, writes, notAgg>>

\* one turn of the loop up to its await: the cache lookup, and on a hit the push;
\* on a miss the call of searchProducts, which runs up to its first await (or to
\* its return with the demo list when no adapter is configured), and the `await`
\* on the promise it returned
AggLookup(r) ==
    /\ req[r].pc = "loop"
    /\ req[r].i <= Len(req[r].cats)
    /\ LET rq    == req[r]
           cat   == rq.cats[rq.i]
           items == getCache(CACHE, cacheKey(cat), now)
           rq1   == [rq EXCEPT !.looked = Append(@, cat)]
       IN IF Truthy(items)
          THEN /\ req' = [req EXCEPT ![r] = [rq1 EXCEPT !.hits = Append(@, cat), !.i = @ + 1,
                                                       !.results = @ \o tagged(items.list, cat)]]
               /\ CACHE' = CACHE
               /\ writes' = writes
          ELSE LET c   == searchBegin(cat, FetchLimit, env)
                   rq2 == [rq1 EXCEPT !.searched = Append(@, cat)]
               IN /\ req' = [req EXCEPT ![r] = aggOnBegin(rq2, c)]
                  /\ CACHE' = CACHE
                  /\ writes' = writes
    /\ UNCHANGED notAgg

\* searchProducts returned the demo list without awaiting anything, and the promise
\* it returned is now delivered to the `await` of the loop:
\* if (items?.length) setCache(cacheKey, items); results.push(...)
AggSearchSettles(r) ==
    /\ req[r].pc = "settled"
    /\ LET rq == req[r]
       IN /\ req' = [req EXCEPT ![r] = aggOnCall(rq, rq.call)]
          /\ CACHE' = cacheOnCall(CACHE, rq, rq.call, now)
          /\ writes' = writesOnCall(writes, r, rq, rq.call, now)
    /\ UNCHANGED notAgg

\* the primary adapter's promise settles
AggRapidReturns(r) ==
    /\ req[r].pc = "rapid"
    /\ \E resp \in AggRapidResponses :
          LET rq == req[r]
              c  == searchOnRapid(rq.call, env, rapidApiGoogleShopping(rq.call.query, rq.call.limit, resp))
          IN /\ req' = [req EXCEPT ![r] = aggOnCall(rq, c)]
             /\ CACHE' = cacheOnCall(CACHE, rq, c, now)
             /\ writes' = writesOnCall(writes, r, rq, c, now)
    /\ UNCHANGED notAgg

\* the secondary adapter's promise settles
AggApifyReturns(r) ==
    /\ req[r].pc = "apify"
    /\ \E run \in AggApifyRuns :
          LET rq == req[r]
              c  == searchOnApify(rq.call, apifyRetailSearch(rq.call.query, rq.call.limit, run))
          IN /\ req' = [req EXCEPT ![r] = aggOnCall(rq, c)]
             /\ CACHE' = cacheOnCall(CACHE, rq, c, now)
             /\ writes' = writesOnCall(writes, r, rq, c, now)
    /\ UNCHANGED notAgg

\* the loop is over: return results
AggReturn(r) ==
    /\ req[r].pc = "loop"
    /\ req[r].i > Len(req[r].cats)
    /\ req' = [req EXCEPT ![r].pc = "done"]
    /\ UNCHANGED <<CACHE, writes, notAgg>>

----------------------------------------------------------------------------
(* composeBundle *)

\* bounds of the composer's inputs
MaxPool == 4

ComposeCats == {"bedding", "lighting"}

\* prices in mills: 13.99, 24.99, 50.006
ComposePrices == {13990, 24990, 50006}

\* budgets in mills: 38.98, 50.006, 100.00 (the spec's range is [50, 5000] USD)
ComposeBudgets == {38980, 50006, 100000}

ComposeMaxItems == {2, 3}

ComposeMustHaves == {<<>>, <<"bedding">>, <<"bedding", "lighting">>, <<"lighting", "lighting">>}

CandidateSet == [category : ComposeCats, price : ComposePrices]

\* The comparator (a,b) => a.price - b.price as Array.prototype.sort reads it: a
\* result of NaN (either price is NaN) counts as 0.
comparePrice(a, b) == IF a = NaN \/ b = NaN THEN 0 ELSE a - b

\* Array.prototype.sort on a list s of positions of cands, as the engine sorts an
\* array of fewer than 64 elements: the run the array starts with is found (and
\* reversed when strictly descending), then every later element is put in its place
\* by a binary search of the part before it.  On finite prices this is a stable
\* ascending sort; a NaN price compares equal to every price.

\* the length of the initial run of s, k elements of which are known to belong to it
RECURSIVE CountRun(_, _, _, _)
CountRun(s, cands, desc, k) ==
    IF k = Len(s) THEN k
    ELSE LET order == comparePrice(cands[s[k + 1]].price, cands[s[k]].price)
         IN IF (desc /\ order >= 0) \/ (~desc /\ order < 0) THEN k
            ELSE CountRun(s, cands, desc, k + 1)

\* the place of pivot among the 0-based places left..right of s:
\* `if (order < 0) right = mid; else left = mid + 1`
RECURSIVE BinarySearch(_, _, _, _, _)
BinarySearch(s, cands, pivot, left, right) ==
    IF left < right
    THEN LET mid   == left + ((right - left) \div 2)
             order == comparePrice(cands[pivot].price, cands[s[mid + 1]].price)
         IN IF order < 0 THEN BinarySearch(s, cands, pivot, left, mid)
            ELSE BinarySearch(s, cands, pivot, mid + 1, right)
    ELSE left

\* the elements of s from the one at `start` on are inserted, one after the other,
\* into the sorted part before them
RECURSIVE BinaryInsertionSort(_, _, _)
BinaryInsertionSort(s, cands, start) ==
    IF start > Len(s) THEN s
    ELSE LET pivot == s[start]
             left  == BinarySearch(s, cands, pivot, 0, start - 1)
             moved == SubSeq(s, 1, left) \o <<pivot>> \o SubSeq(s, left + 1, start - 1)
                      \o SubSeq(s, start + 1, Len(s))
         IN BinaryInsertionSort(moved, cands, start + 1)

\* .sort((a,b)=>a.price-b.price)
SortByPrice(s, cands) ==
    IF Len(s) < 2 THEN s
    ELSE LET desc == comparePrice(cands[s[2]].price, cands[s[1]].price) < 0
             run  == CountRun(s, cands, desc, 2)
             made == IF desc
                     THEN [k \in 1..Len(s) |-> IF k <= run THEN s[run + 1 - k] ELSE s[k]]
                     ELSE s
         IN BinaryInsertionSort(made, cands, run + 1)

\* mutant: the options of a category are left in pool order
optionsNoSort(cands, cat) ==
    LET IsCat(i) == cands[i].category = cat
    IN SelectSeq([i \in 1..Len(cands) |-> i], IsCat)

\* candidates.filter(c => c.category === cat).sort((a,b)=>a.price-b.price)
options(cands, cat) ==
    LET IsCat(i) == cands[i].category = cat
    IN SortByPrice(SelectSeq([i \in 1..Len(cands) |-> i], IsCat), cands)

\* candidates.filter(c => !selected.includes(c)).sort((a,b)=>a.price-b.price)
remainingOf(cands, sel) ==
    LET NotSel(i) == i \notin Range(sel)
    IN SortByPrice(SelectSeq([i \in 1..Len(cands) |-> i], NotSel), cands)

\* the price is not tested for being finite
pickAcceptsAnyPrice(sel, tot, price, budget, maxItems) ==
    /\ ~(Len(sel) >= maxItems)
    /\ ~(tot + price > budget)

\* a candidate that would bring the total to exactly the budget is refused
pickAcceptsBelowBudget(sel, tot, price, budget, maxItems) ==
    /\ ~(Len(sel) >= maxItems)
    /\ isFinite(price)
    /\ ~(tot + price >= budget)

\* the three refusals of pick(item), in the order of the code
pickAccepts(sel, tot, price, budget, maxItems) ==
    /\ ~(Len(sel) >= maxItems)
    /\ isFinite(price)
    /\ ~(tot + price > budget)

\* pick(item): selected and total after the call
pickSelected(sel, tot, i, price, budget, maxItems) ==
    IF pickAccepts(sel, tot, price, budget, maxItems) THEN Append(sel, i) ELSE sel

\* `total += item.price` left out
pickTotalKept(sel, tot, price, budget, maxItems) == tot

\* total after pick(item)
pickTotal(sel, tot, price, budget, maxItems) ==
    IF pickAccepts(sel, tot, price, budget, maxItems) THEN tot + price ELSE tot

\* the bundle's total: Number(total.toFixed(2))
bundleTotal(tot) == toFixed2(tot)

\* composeBundle not running: its variables at rest
ComposeIdle ==
    /\ spec = [title |-> <<>>, budget |-> 0, max_items |-> 0, must_have |-> <<>>]
    /\ candidates = <<>>
    /\ selected = <<>>
    /\ total = 0
    /\ cpc = "idle"
    /\ catI = 1
    /\ optI = 1
    /\ remaining = <<>>
    /\ nCov = 0
    /\ bundle = NoBundle
    /\ earlier = <<>>

ComposeInit ==
    /\ spec \in [title : {<<"K", "i", "t">>}, budget : ComposeBudgets,
                  max_items : ComposeMaxItems, must_have : ComposeMustHaves]
    /\ candidates \in SeqsUpTo(CandidateSet, MaxPool)
    /\ selected = <<>>
    /\ total = 0
    /\ cpc = "coverage"
    /\ catI = 1
    /\ optI = 1
    /\ remaining = <<>>
    /\ nCov = 0
    /\ bundle = NoBundle
    /\ earlier = <<>>

\* composeBundle called directly, on a pool that may hold candidates whose price is
\* NaN (the adapters and the demo list never produce one)
MaxDirectPool == 3

DirectCandidateSet == [category : ComposeCats, price : ComposePrices \cup {NaN}]

ComposeDirectInit ==
    /\ spec \in [title : {<<"K", "i", "t">>}, budget : ComposeBudgets,
                  max_items : ComposeMaxItems, must_have : ComposeMustHaves]
    /\ candidates \in SeqsUpTo(DirectCandidateSet, MaxDirectPool)
    /\ selected = <<>>
    /\ total = 0
    /\ cpc = "coverage"
    /\ catI = 1
    /\ optI = 1
    /\ remaining = <<>>
    /\ nCov = 0
    /\ bundle = NoBundle
    /\ earlier = <<>>

\* composeBundle called on pools made of the four candidates of the end-to-end
\* scenario (bedding 79.99, bedding 24.99, lighting 24.99, lighting 13.99), with the
\* scenario's budget of 60 and a tighter one
ScenarioCandidates ==
    { [category |-> "bedding", price |-> 79990], [category |-> "bedding", price |-> 24990],
      [category |-> "lighting", price |-> 24990], [category |-> "lighting", price |-> 13990] }

\* in mills: 60.00 and 38.98
ScenarioBudgets == {60000, 38980}

ComposeScenarioInit ==
    /\ spec \in [title : {<<"K", "i", "t">>}, budget : ScenarioBudgets,
                  max_items : ComposeMaxItems, must_have : ComposeMustHaves]
    /\ candidates \in SeqsUpTo(ScenarioCandidates, MaxPool)
    /\ selected = <<>>
    /\ total = 0
    /\ cpc = "coverage"
    /\ catI = 1
    /\ optI = 1
    /\ remaining = <<>>
    /\ nCov = 0
    /\ bundle = NoBundle
    /\ earlier = <<>>

\* the pools on which composeBundle is followed to its return
MaxFairPool == 2

ComposeFairInit ==
    /\ spec \in [title : {<<"K", "i", "t">>}, budget : ScenarioBudgets,
                  max_items : ComposeMaxItems, must_have : ComposeMustHaves]
    /\ candidates \in SeqsUpTo(ScenarioCandidates, MaxFairPool)
    /\ selected = <<>>
    /\ total = 0
    /\ cpc = "coverage"
    /\ catI = 1
    /\ optI = 1
    /\ remaining = <<>>
    /\ nCov = 0
    /\ bundle = NoBundle
    /\ earlier = <<>>

\* one iteration of `for (const opt of options) { if (pick(opt)) break; }`
CoveragePick ==
    /\ cpc = "coverage"
    /\ catI <= Len(spec.must_have)
    /\ LET opts == options(candidates, spec.must_have[catI])
       IN /\ optI <= Len(opts)
          /\ LET i == opts[optI]
                 p == candidates[i].price
                 ok == pickAccepts(selected, total, p, spec.budget, spec.max_items)
             IN /\ selected' = pickSelected(selected, total, i, p, spec.budget, spec.max_items)
                /\ total' = pickTotal(selected, total, p, spec.budget, spec.max_items)
                /\ IF ok \/ optI = Len(opts)
                     THEN catI' = catI + 1 /\ optI' = 1
                     ELSE catI' = catI /\ optI' = optI + 1
    /\ UNCHANGED <<spec, candidates, cpc, remaining, nCov, bundle, earlier, notCompose>>

\* a must_have category with no candidate at all makes composeBundle throw
CoverageSkipThrows ==
    /\ cpc = "coverage"
    /\ catI <= Len(spec.must_have)
    /\ options(candidates, spec.must_have[catI]) = <<>>
    /\ catI' = catI
    /\ optI' = 1
    /\ cpc' = "threw"
    /\ UNCHANGED <<spec, candidates, selected, total, remaining, nCov, bundle, earlier, notCompose>>

\* a must_have category with no candidate at all: the inner loop has no iteration
CoverageSkip ==
    /\ cpc = "coverage"
    /\ catI <= Len(spec.must_have)
    /\ options(candidates, spec.must_have[catI]) = <<>>
    /\ catI' = catI + 1
    /\ optI' = 1
    /\ UNCHANGED <<spec, candidates, selected, total, cpc, remaining, nCov, bundle, earlier, notCompose>>

\* the remaining candidates are left in pool order
StartFillPoolOrder ==
    /\ cpc = "coverage"
    /\ catI > Len(spec.must_have)
    /\ remaining' = LET NotSel(i) == i \notin Range(selected)
                    IN SelectSeq([i \in 1..Len(candidates) |-> i], NotSel)
    /\ nCov' = Len(selected)
    /\ cpc' = "fill"
    /\ optI' = 1
    /\ UNCHANGED <<spec, candidates, selected, total, catI, bundle, earlier, notCompose>>

\* the coverage loop is over: `remaining` is computed once, from `selected` as it is now
StartFill ==
    /\ cpc = "coverage"
    /\ catI > Len(spec.must_have)
    /\ remaining' = remainingOf(candidates, selected)
    /\ nCov' = Len(selected)
    /\ cpc' = "fill"
    /\ optI' = 1
    /\ UNCHANGED <<spec, candidates, selected, total, catI, bundle, earlier, notCompose>>

\* one iteration of `for (const opt of remaining) pick(opt);`
FillPick ==
    /\ cpc = "fill"
    /\ optI <= Len(remaining)
    /\ LET i == remaining[optI]
           p == candidates[i].price
       IN /\ selected' = pickSelected(selected, total, i, p, spec.budget, spec.max_items)
          /\ total' = pickTotal(selected, total, p, spec.budget, spec.max_items)
    /\ optI' = optI + 1
    /\ UNCHANGED <<spec, candidates, cpc, catI, remaining, nCov, bundle, earlier, notCompose>>

\* return { title, budget, total: Number(total.toFixed(2)), items: selected }
ComposeReturn ==
    /\ cpc = "fill"
    /\ optI > Len(remaining)
    /\ bundle' = [title |-> spec.title, budget |-> spec.budget,
                  total |-> bundleTotal(total), items |-> selected]
    /\ cpc' = "done"
    /\ UNCHANGED <<spec, candidates, selected, total, catI, optI, remaining, nCov, earlier, notCompose>>

\* how much later the second call is made: at once, or just under the cache's TTL
\* later
AgainDelays == {0, TTL_MS - 1}

\* `selected` and `total` live outside the function: the second call goes on from
\* what the first call left in them
ComposeAgainSharedState ==
    /\ cpc = "done"
    /\ earlier = <<>>
    /\ earlier' = <<bundle>>
    /\ \E d \in AgainDelays : now' = now + d
    /\ cpc' = "coverage"
    /\ catI' = 1
    /\ optI' = 1
    /\ remaining' = <<>>
    /\ nCov' = 0
    /\ bundle' = NoBundle
    /\ UNCHANGED <<spec, candidates, selected, total>>
    /\ UNCHANGED <<CACHE, ticks, lastGet, lastSet, searchVars, aggVars, adapterVars, normVars, handlerVars>>

\* composeBundle is called a second time, at once or later, with the same spec and
\* the same pool, while the first call's `selected` and `total` still hold what it
\* left in them: the call's own `const selected = []; let total = 0;` start it afresh
ComposeAgain ==
    /\ cpc = "done"
    /\ earlier = <<>>
    /\ earlier' = <<bundle>>
    /\ \E d \in AgainDelays : now' = now + d
    /\ selected' = <<>>
    /\ total' = 0
    /\ cpc' = "coverage"
    /\ catI' = 1
    /\ optI' = 1
    /\ remaining' = <<>>
    /\ nCov' = 0
    /\ bundle' = NoBundle
    /\ UNCHANGED <<spec, candidates>>
    /\ UNCHANGED <<CACHE, ticks, lastGet, lastSet, searchVars, aggVars, adapterVars, normVars, handlerVars>>

\* the budgets and item caps of the specs the handler composes for
PipelineBudgets == {45000, 500000}

PipelineMaxItems == {10}

\* handler, steps 2 and 3: `const candidates = await getCandidatesFromSpec(spec);
\* const bundle = composeBundle({ spec, candidates });` -- the list the aggregation
\* returned is the pool, and must_have is the one the aggregation walked
PipelineCompose(r) ==
    /\ req[r].pc = "done"
    /\ cpc = "idle"
    /\ \E b \in PipelineBudgets, m \in PipelineMaxItems :
          spec' = [title |-> <<"K", "i", "t">>, budget |-> b, max_items |-> m,
                   must_have |-> req[r].spec.must_have]
    /\ candidates' = req[r].results
    /\ cpc' = "coverage"
    /\ UNCHANGED <<selected, total, catI, optI, remaining, nCov, bundle, earlier, notCompose>>

----------------------------------------------------------------------------
(* safeGetSpecFromAI: the prompt and the optional budget to a normalised spec *)

\* an amount of whole dollars, in mills
Usd(n) == n * 1000

\* JSON null as a field's value
RawNull == [t |-> "null", n |-> 0, chars |-> <<>>]

\* s.trim(), the only white space of the model being the space
RECURSIVE TrimLeft(_)
TrimLeft(s) == IF s # <<>> /\ Head(s) = " " THEN TrimLeft(Tail(s)) ELSE s

RECURSIVE TrimRight(_)
TrimRight(s) == IF s # <<>> /\ s[Len(s)] = " " THEN TrimRight(SubSeq(s, 1, Len(s) - 1)) ELSE s

trim(s) == TrimRight(TrimLeft(s))

\* Number(v) for a JSON value: undefined is NaN, null is 0, a string is trimmed and is
\* 0 when empty, its value when a run of digits, NaN otherwise (the strings of the
\* model carry no sign, fraction or exponent); unit is what 1 is worth in the field's
\* unit (1000 for an amount in mills)
ToNumber(v, unit) ==
    CASE v.t = "absent" -> NaN
      [] v.t = "null"   -> 0
      [] v.t = "num"    -> v.n
      [] v.t = "str"    ->
            LET cs == trim(v.chars)
            IN IF cs = <<>> THEN 0
               ELSE IF \A i \in 1..Len(cs) : cs[i] \in Digits THEN DigitsVal(cs) * unit
               ELSE NaN

\* function numberOr(v,d=0){ const n=Number(v); return isFinite(n)?n:d; }
numberOr(v, d, unit) == LET n == ToNumber(v, unit) IN IF isFinite(n) THEN n ELSE d

\* function clamp(n,min,max){ return Math.max(min, Math.min(max, Number(n)||min)); }
\* on a number n: NaN and 0 are falsy
clamp(n, min, max) == Max(min, Min(max, IF n = NaN \/ n = 0 THEN min ELSE n))

\* function stringOr(v,d=''){ return (typeof v==='string'&&v.trim())?v.trim():d; }
stringOr(v, d) == IF v.t = "str" /\ trim(v.chars) # <<>> THEN trim(v.chars) ELSE d

\* x.trim() for a list entry, on the entries of the model
trimEntry(x) ==
    CASE x = " " -> ""
      [] x = " fan " -> "fan"
      [] OTHER -> x

\* function arrayOfStringsOr(v,d=[]){
\*   return Array.isArray(v)?v.map(x=>String(x||'').trim()).filter(Boolean):d; }
arrayOfStringsOr(v, d) ==
    IF ~v.null
    THEN LET NonEmpty(x) == x # ""
         IN SelectSeq([i \in 1..Len(v.list) |-> trimEntry(v.list[i])], NonEmpty)
    ELSE d

\* `Bundle for: ${prompt}`
defaultTitle(prompt) == <<"Bundle for: ">> \o prompt

DefaultMustHave == <<"bedding", "lighting", "storage">>

DefaultNiceToHave == <<"desk accessories", "fan", "laundry">>

\* isFinite(budget) ? budget : 500 (an undefined budget is carried as NaN: the only
\* thing the code does with it is this test)
budgetOr500(budget) == IF isFinite(budget) THEN budget ELSE Usd(500)

\* The language model's answer: the fetch fails ("neterr"), the status is not ok
\* ("status"), the body is not JSON ("badjson"), the message content is not JSON
\* ("malformed") or is JSON null ("notobject"), or it is a JSON object ("object";
\* a missing content is the empty object).
LLMResp(kind, content) == [kind |-> kind, content |-> content]

EmptyObject ==
    [title |-> RawAbsent, budget |-> RawAbsent, max_items |-> RawAbsent,
     must_have |-> Null, nice_to_have |-> Null]

\* the `// normalize` block
normalizeSpec(o, prompt, budget) ==
    [title        |-> stringOr(o.title, defaultTitle(prompt)),
     budget       |-> clamp(numberOr(o.budget, budgetOr500(budget), 1000), Usd(50), Usd(5000)),
     max_items    |-> clamp(numberOr(o.max_items, 10, 1), 3, 15),
     must_have    |-> slice0(arrayOfStringsOr(o.must_have, DefaultMustHave), 10),
     nice_to_have |-> slice0(arrayOfStringsOr(o.nice_to_have, DefaultNiceToHave), 10)]

\* the catch block
fallbackSpec(prompt, budget) ==
    [title        |-> defaultTitle(prompt),
     budget       |-> budgetOr500(budget),
     must_have    |-> DefaultMustHave,
     nice_to_have |-> DefaultNiceToHave,
     max_items    |-> 10]

\* key: OPENAI_API_KEY is set
safeGetSpecFromAI(prompt, budget, key, resp) ==
    IF ~key \/ resp.kind \in {"neterr", "status", "badjson", "malformed", "notobject"}
    THEN fallbackSpec(prompt, budget)
    ELSE normalizeSpec(resp.content, prompt, budget)

NoSpec == [title |-> <<>>, budget |-> 0, max_items |-> 0, must_have |-> <<>>, nice_to_have |-> <<>>]

\* the user budgets: none, 10, 300, 9000 and -5 dollars
NormBudgets == {NaN, Usd(10), Usd(300), Usd(9000), -Usd(5)}

NormPrompts == {<<"d", "o", "r", "m">>}

NormContents ==
    [title        : {RawAbsent, RawStr(<<" ", "K", "i", "t">>)},
     budget       : {RawAbsent, RawNull, RawNum(0), RawNum(Usd(20)), RawNum(Usd(300)),
                     RawNum(Usd(9000)), RawNum(-Usd(1)), RawStr(<<"a", "b", "c">>),
                     RawStr(<<"3", "0", "0">>)},
     max_items    : {RawAbsent, RawNum(0), RawNum(2), RawNum(7), RawNum(40), RawStr(<<"x">>)},
     must_have    : {Null, Arr(<<"bedding", " ", " fan ">>)},
     nice_to_have : {Null, Arr(<<>>)}]

LLMResponses ==
    {LLMResp(k, EmptyObject) : k \in {"neterr", "status", "badjson", "malformed", "notobject"}}
    \cup {LLMResp("object", o) : o \in NormContents}

\* a call of safeGetSpecFromAI: its arguments, the key, the model's answer, the spec returned
NormCalls ==
    [prompt : NormPrompts, budget : NormBudgets, key : BOOLEAN, resp : LLMResponses,
     at : {"called"}, spec : {NoSpec}]

NormIdle ==
    ncall = [prompt |-> <<>>, budget |-> NaN, key |-> FALSE, resp |-> LLMResp("none", EmptyObject),
             at |-> "idle", spec |-> NoSpec]

NormInit == ncall \in NormCalls

\* the call settles
NormSettles ==
    /\ ncall.at = "called"
    /\ ncall' = [ncall EXCEPT
                   !.at = "returned",
                   !.spec = safeGetSpecFromAI(ncall.prompt, ncall.budget, ncall.key, ncall.resp)]
    /\ UNCHANGED notNorm

----------------------------------------------------------------------------
(* handler: the HTTP entry point *)

\* req.body: absent ("none"), a string that is not JSON ("badjson"), the JSON text
\* null ("jsonnull"), or a JSON object, parsed already or not, with its prompt and
\* budget fields ("object")
ReqBody(kind, prompt, budget) == [kind |-> kind, prompt |-> prompt, budget |-> budget]

\* String(body.prompt || '').trim(), for a prompt that is absent, null or a string
promptOf(body) ==
    IF body.kind = "object" /\ body.prompt.t = "str" THEN trim(body.prompt.chars) ELSE <<>>

\* Number(body.budget || NaN)
budgetInOf(body) ==
    IF body.kind # "object" \/ OrEmpty(body.budget) = RawStr(<<>>) \/ body.budget.t = "null"
    THEN NaN
    ELSE ToNumber(body.budget, 1000)

\* the items of the last-resort bundle
FallbackItems ==
    << [name |-> <<"Twin XL Bedding Set">>, price |-> 79990, link |-> "https://example.com/bedding", source |-> "fallback"],
       [name |-> <<"LED Desk Lamp">>, price |-> 24990, link |-> "https://example.com/lamp", source |-> "fallback"],
       [name |-> <<"Over-the-Door Hooks">>, price |-> 12990, link |-> "https://example.com/hooks", source |-> "fallback"] >>

\* mutant: a failure is answered with status 500 and the error
handlerCatch500(err) == [status |-> 500, body |-> [error |-> err]]

\* the catch block: res.status(200).json({ title, budget, total, items, note })
handlerCatch(err) ==
    [status |-> 200,
     body   |-> [title  |-> <<"Bundle (Fallback)">>,
                 budget |-> Usd(500),
                 total  |-> toFixed2(FallbackItems[1].price + FallbackItems[2].price + FallbackItems[3].price),
                 items  |-> FallbackItems,
                 note   |-> "Fallback mode due to server error"]]

\* A request: where its handling is ("idle": not received, "spec": awaiting
\* safeGetSpecFromAI, "candidates": awaiting getCandidatesFromSpec, "compose": inside
\* composeBundle, "done": returned), the request, the prompt and the budget read from
\* it, the spec, whether the catch block ran, and the responses sent.
idleHttp ==
    [pc |-> "idle", method |-> "", body |-> ReqBody("none", RawAbsent, RawAbsent),
     prompt |-> <<>>, budgetIn |-> NaN, spec |-> NoSpec, threw |-> FALSE, responses |-> <<>>]

\* the handler up to its first await
handlerBegin(method, body) ==
    LET h == [idleHttp EXCEPT !.method = method, !.body = body]
    IN IF method # "POST"
       THEN [h EXCEPT !.pc = "done",
                      !.responses = <<[status |-> 405, body |-> [error |-> "Method not allowed"]]>>]
       ELSE IF body.kind \in {"badjson", "jsonnull"}
       THEN [h EXCEPT !.pc = "done", !.threw = TRUE,
                      !.responses = <<handlerCatch(body.kind)>>]
       ELSE IF promptOf(body) = <<>>
       THEN [h EXCEPT !.pc = "done", !.prompt = promptOf(body), !.budgetIn = budgetInOf(body),
                      !.responses = <<[status |-> 400, body |-> [error |-> "Missing prompt"]]>>]
       ELSE [h EXCEPT !.pc = "spec", !.prompt = promptOf(body), !.budgetIn = budgetInOf(body)]

HandlerMethods == {"POST", "GET"}

HandlerBodies ==
    {ReqBody(k, RawAbsent, RawAbsent) : k \in {"none", "badjson", "jsonnull"}}
    \cup {ReqBody("object", pr, b) :
            pr \in {RawAbsent, RawStr(<<>>), RawStr(<<" ", " ">>), RawStr(<<"d", "o", "r", "m", " ">>)},
            b \in {RawAbsent, RawNum(0), RawNum(Usd(60)), RawStr(<<"3", "0", "0">>)}}

\* the language model's answers to the handler's request: none that parses, the empty
\* object, and an object naming nine distinct must-have categories
HandlerLLMResponses ==
    { LLMResp("malformed", EmptyObject),
      LLMResp("object", EmptyObject),
      LLMResp("object",
              [EmptyObject EXCEPT
                 !.must_have = Arr(<<"bedding", "lighting", "storage", "desk accessories", "fan",
                                     "laundry", "bath", "kitchen", "decor">>),
                 !.nice_to_have = Arr(<<>>),
                 !.max_items = RawNum(4)]) }

HandlerIdle == http = idleHttp

\* a request arrives and is handled up to the first await
HandlerCall ==
    /\ http.pc = "idle"
    /\ \E m \in HandlerMethods, b \in HandlerBodies : http' = handlerBegin(m, b)
    /\ UNCHANGED <<composeVars, cacheVars, searchVars, aggVars, adapterVars, normVars>>

\* safeGetSpecFromAI returns, and getCandidatesFromSpec(spec) is called
HandlerSpecReturns ==
    /\ http.pc = "spec"
    /\ \E key \in BOOLEAN, resp \in HandlerLLMResponses :
          LET sp == safeGetSpecFromAI(http.prompt, http.budgetIn, key, resp)
          IN /\ http' = [http EXCEPT !.pc = "candidates", !.spec = sp]
             /\ req' = [req EXCEPT ![1] = aggStart(sp)]
    /\ UNCHANGED <<composeVars, cacheVars, searchVars, writes, adapterVars, normVars>>

\* getCandidatesFromSpec has returned, and composeBundle({ spec, candidates }) is entered
HandlerCandidatesReturn ==
    /\ http.pc = "candidates"
    /\ req[1].pc = "done"
    /\ cpc = "idle"
    /\ http' = [http EXCEPT !.pc = "compose"]
    /\ spec' = http.spec
    /\ candidates' = req[1].results
    /\ cpc' = "coverage"
    /\ UNCHANGED <<selected, total, catI, optI, remaining, nCov, bundle, earlier>>
    /\ UNCHANGED <<cacheVars, searchVars, aggVars, adapterVars, normVars>>

\* composeBundle has returned: res.status(200).json(bundle)
HandlerRespond ==
    /\ http.pc = "compose"
    /\ cpc = "done"
    /\ http' = [http EXCEPT
                  !.pc = "done",
                  !.responses = Append(@, [status |-> 200,
                                           body |-> [title  |-> bundle.title,
                                                     budget |-> bundle.budget,
                                                     total  |-> bundle.total,
                                                     items  |-> [i \in 1..Len(bundle.items) |->
                                                                   candidates[bundle.items[i]]]]])]
    /\ UNCHANGED <<composeVars, cacheVars, searchVars, aggVars, adapterVars, normVars>>

----------------------------------------------------------------------------
(* Specifications: each runs one part of the program, the rest at rest *)

\* the cache, called directly
CacheNext == Tick \/ CacheSet \/ CacheGet

InitCache == CacheInit /\ ComposeIdle /\ SearchIdle /\ AggIdle /\ AdapterIdle /\ NormIdle /\ HandlerIdle

SpecCache == InitCache /\ [][CacheNext]_vars

\* searchProducts, called directly with every query and limit of the bounded sets
SearchNext == SearchCall \/ SearchRapidReturns \/ SearchApifyReturns

InitSearch == SearchInit /\ CacheInit /\ ComposeIdle /\ AggIdle /\ AdapterIdle /\ NormIdle /\ HandlerIdle

SpecSearch == InitSearch /\ [][SearchNext]_vars

\* composeBundle on every spec and pool of the bounded input sets
ComposeNext == CoveragePick \/ CoverageSkip \/ StartFill \/ FillPick \/ ComposeReturn

InitCompose == ComposeInit /\ CacheInit /\ SearchIdle /\ AggIdle /\ AdapterIdle /\ NormIdle /\ HandlerIdle

SpecCompose == InitCompose /\ [][ComposeNext]_vars

\* composeBundle twice on every spec and pool of the bounded input sets
InitComposeDirect ==
    ComposeDirectInit /\ CacheInit /\ SearchIdle /\ AggIdle /\ AdapterIdle /\ NormIdle /\ HandlerIdle

SpecComposeDirect == InitComposeDirect /\ [][ComposeNext]_vars

InitComposeScenario ==
    ComposeScenarioInit /\ CacheInit /\ SearchIdle /\ AggIdle /\ AdapterIdle /\ NormIdle /\ HandlerIdle

SpecComposeScenario == InitComposeScenario /\ [][ComposeNext]_vars

InitComposeFair ==
    ComposeFairInit /\ CacheInit /\ SearchIdle /\ AggIdle /\ AdapterIdle /\ NormIdle /\ HandlerIdle

\* composeBundle is synchronous code: once called it runs on until it returns
SpecComposeFair == InitComposeFair /\ [][ComposeNext]_vars /\ WF_vars(ComposeNext)

ComposeTwiceNext ==
    \/ CoveragePick \/ CoverageSkip \/ StartFill \/ FillPick \/ ComposeReturn
    \/ ComposeAgain

SpecComposeTwice == InitCompose /\ [][ComposeTwiceNext]_vars

\* overlapping requests aggregating short category lists while time passes
AggNext ==
    \/ Tick
    \/ \E r \in Reqs : AggCall(r)
    \/ \E r \in Reqs : AggLookup(r)
    \/ \E r \in Reqs : AggSearchSettles(r)
    \/ \E r \in Reqs : AggRapidReturns(r)
    \/ \E r \in Reqs : AggApifyReturns(r)
    \/ \E r \in Reqs : AggReturn(r)

\* the credentials of the aggregating process: none, RapidAPI only, a half-set
\* RapidAPI with Apify, both
AggEnvs ==
    { e \in Envs : /\ e.RAPIDAPI_HOST
                    /\ e.APIFY_TOKEN = e.APIFY_ACTOR_ID
                    /\ (e.RAPIDAPI_KEY \/ ~e.APIFY_TOKEN) } \cup
    { [RAPIDAPI_KEY |-> FALSE, RAPIDAPI_HOST |-> TRUE, APIFY_TOKEN |-> TRUE, APIFY_ACTOR_ID |-> TRUE] }

InitAgg ==
    /\ env \in AggEnvs
    /\ scall = newCall("", 0)
    /\ CacheInit /\ ComposeIdle /\ AggIdle /\ AdapterIdle /\ NormIdle /\ HandlerIdle

SpecAgg == InitAgg /\ [][AggNext]_vars

\* requests one after the other, the clock advancing at any moment
AggSeqNext ==
    \/ Tick
    \/ \E r \in Reqs : AggCallAfter(r)
    \/ \E r \in Reqs : AggLookup(r)
    \/ \E r \in Reqs : AggSearchSettles(r)
    \/ \E r \in Reqs : AggRapidReturns(r)
    \/ \E r \in Reqs : AggApifyReturns(r)
    \/ \E r \in Reqs : AggReturn(r)

SpecAggSeq == InitAgg /\ [][AggSeqNext]_vars

\* one request aggregating a long category list
AggLongNext ==
    \/ \E r \in Reqs : AggCallLong(r)
    \/ \E r \in Reqs : AggLookup(r)
    \/ \E r \in Reqs : AggSearchSettles(r)
    \/ \E r \in Reqs : AggRapidReturns(r)
    \/ \E r \in Reqs : AggApifyReturns(r)
    \/ \E r \in Reqs : AggReturn(r)

SpecAggLong == InitAgg /\ [][AggLongNext]_vars

\* requests one after the other, each composing its bundle from what it aggregated.
\* composeBundle has no await: it runs to its return before any other request moves.
\* Every must_have category is among the categories searched, and searchProducts
\* never returns an empty list, so the coverage pass finds options for each.
PipelineNext ==
    \/ cpc \in {"idle", "done"} /\ AggSeqNext
    \/ \E r \in Reqs : PipelineCompose(r)
    \/ CoveragePick
    \/ StartFill
    \/ FillPick
    \/ ComposeReturn

SpecPipeline == InitAgg /\ [][PipelineNext]_vars

\* one request on a cold cache whose spec names a category in two spellings, the
\* clock advancing at any moment
AggCaseNext ==
    \/ Tick
    \/ \E r \in Reqs : AggCallCase(r)
    \/ \E r \in Reqs : AggLookup(r)
    \/ \E r \in Reqs : AggSearchSettles(r)
    \/ \E r \in Reqs : AggRapidReturns(r)
    \/ \E r \in Reqs : AggApifyReturns(r)
    \/ \E r \in Reqs : AggReturn(r)

SpecAggCase == InitAgg /\ [][AggCaseNext]_vars

\* one adapter call on every upstream answer of the bounded set
AdapterNext == AdapterSettles

InitAdapter == AdapterInit /\ SearchIdle /\ CacheInit /\ ComposeIdle /\ AggIdle /\ NormIdle /\ HandlerIdle

SpecAdapter == InitAdapter /\ [][AdapterNext]_vars

\* one call of safeGetSpecFromAI on every input of the bounded sets
ApifyNext == ApifyCall \/ ApifyWait \/ ApifyTimesOut \/ ApifyPoll \/ ApifyDataset

InitApify == AdapterIdle /\ SearchIdle /\ CacheInit /\ ComposeIdle /\ AggIdle /\ NormIdle /\ HandlerIdle

SpecApify == InitApify /\ [][ApifyNext]_vars

\* the same call when every request it makes is answered and every timer fires
SpecApifyFair == InitApify /\ [][ApifyNext]_vars /\ WF_vars(ApifyNext)

\* the same call, with a client that may go away while it polls
ApifyAbortNext ==
    ApifyCall \/ ApifyWait \/ ApifyTimesOut \/ ApifyPoll \/ ApifyDataset \/ ApifyAbort

SpecApifyAbort == InitApify /\ [][ApifyAbortNext]_vars

NormNext == NormSettles

InitNorm == NormInit /\ SearchIdle /\ CacheInit /\ ComposeIdle /\ AggIdle /\ AdapterIdle /\ HandlerIdle

SpecNorm == InitNorm /\ [][NormNext]_vars

\* one request through the handler, from its arrival to its response
HandlerNext ==
    \/ HandlerCall
    \/ HandlerSpecReturns
    \/ \E r \in Reqs : AggLookup(r)
    \/ \E r \in Reqs : AggSearchSettles(r)
    \/ \E r \in Reqs : AggRapidReturns(r)
    \/ \E r \in Reqs : AggReturn(r)
    \/ HandlerCandidatesReturn
    \/ CoveragePick
    \/ CoverageSkip
    \/ StartFill
    \/ FillPick
    \/ ComposeReturn
    \/ HandlerRespond

\* the credentials of the handling process: none, or RapidAPI only
HandlerEnvs == {e \in Envs : e.RAPIDAPI_KEY = e.RAPIDAPI_HOST /\ ~e.APIFY_TOKEN /\ ~e.APIFY_ACTOR_ID}

InitHandler ==
    /\ env \in HandlerEnvs
    /\ scall = newCall("", 0)
    /\ CacheInit /\ ComposeIdle /\ AggIdle /\ AdapterIdle /\ NormIdle /\ HandlerIdle

SpecHandler == InitHandler /\ [][HandlerNext]_vars

----------------------------------------------------------------------------
(* Claims *)

\* C1: for every spec and candidate pool the returned bundle has total <= spec.budget
\* and at most spec.max_items items, and the running total and the running selection
\* obey the same two bounds after every pick of the coverage pass and of the fill pass.
C1_WithinBudgetAndCap ==
    /\ cpc = "done" =>
          /\ bundle.total <= spec.budget
          /\ Len(bundle.items) <= spec.max_items
    /\ selected # <<>> =>
          /\ total <= spec.budget
          /\ Len(selected) <= spec.max_items

\* every adapter that searchProducts called failed or returned an empty list
\* (none called: none configured)
AllAdaptersFailed(c) == \A i \in 1..Len(c.got) : c.got[i] \in {"throw", "empty"}

\* C2: for every query and limit, searchProducts returns a non-empty list of at most
\* limit entries, whatever adapters are configured and even when every configured
\* adapter fails or returns an empty list.
C2_NonEmptyWithinLimit ==
    scall.at = "returned" =>
        /\ scall.result # <<>>
        /\ Len(scall.result) <= scall.limit

\* C2 is exercised: both adapters were configured and called, neither gave a list,
\* and the call returned with limit 1
C2_Witness ==
    /\ scall.at = "returned"
    /\ scall.calls = <<"rapid", "apify">>
    /\ scall.got = <<"throw", "empty">>
    /\ scall.limit = 1
    /\ Len(scall.result) = 1

\* C3: searchProducts never fails: whatever the primary and the secondary adapter
\* come to (network failure, bad status, malformed payload, job timeout, job failure),
\* the call completes with a list and rejects with no adapter's error.
C3_SearchNeverFails ==
    /\ scall.at = "returned" => ~scall.threw
    /\ (scall.at = "returned" /\ Len(scall.got) = Len(scall.calls)) => scall.result # <<>>
    /\ (scall.at \in {"rapid", "apify"}) => Len(scall.got) = Len(scall.calls) - 1

\* C3 is exercised: both adapters rejected and the call returned a list
C3_Witness ==
    /\ scall.at = "returned"
    /\ scall.got = <<"throw", "throw">>
    /\ ~scall.threw
    /\ scall.result # <<>>

\* the prices of the placeholder list for a limit, cheapest first
PlaceholderPrices(limit) ==
    IF limit = 1 THEN <<24990>>
    ELSE IF limit = 2 THEN <<24990, 32500>>
    ELSE <<18750, 24990, 32500>>

\* the list is made of placeholders for the query, priced as PlaceholderPrices says
IsPlaceholderList(r, query, limit) ==
    /\ \A i \in 1..Len(r) : r[i].source = "demo" /\ r[i].name[1] = capitalize(query)
    /\ [i \in 1..Len(r) |-> r[i].price] = PlaceholderPrices(limit)
    /\ \A i, j \in 1..Len(r) : i < j => r[i].price <= r[j].price

\* C8 as stated: when both adapters are unconfigured or each returns empty or fails,
\* searchProducts(query, limit) returns exactly limit placeholders, sorted ascending
\* by price, the same list for the same (query, limit).
C8_ExactlyLimitPlaceholders ==
    (scall.at = "returned" /\ AllAdaptersFailed(scall)) =>
        /\ Len(scall.result) = scall.limit
        /\ IsPlaceholderList(scall.result, scall.query, scall.limit)

\* C8 as amended: in that case searchProducts returns exactly min(limit, 3)
\* placeholders (the three fixed ones cut to limit), sorted ascending by price, the
\* same list for the same (query, limit).
C8_AtMostThreePlaceholders ==
    (scall.at = "returned" /\ AllAdaptersFailed(scall)) =>
        /\ Len(scall.result) = (IF scall.limit < 3 THEN scall.limit ELSE 3)
        /\ IsPlaceholderList(scall.result, scall.query, scall.limit)

\* C8 is exercised: both adapters were called and gave nothing, and three
\* placeholders came back for limit 3
C8_Witness ==
    /\ scall.at = "returned"
    /\ scall.got \in {<<"throw", "empty">>, <<"empty", "throw">>}
    /\ scall.limit = 3
    /\ Len(scall.result) = 3
    /\ scall.result[1].source = "demo"

\* C5: getCache(key) called with no clock advance after setCache(key, v) returns v;
\* called once the clock is more than 45 minutes past that setCache it returns null,
\* the same as for a key that was never set.
C5_GetAfterSet ==
    lastGet # NoCall =>
        /\ (lastGet.setAt >= 0 /\ lastGet.at = lastGet.setAt) => lastGet.result = Arr(lastGet.data)
        /\ (lastGet.setAt >= 0 /\ lastGet.at - lastGet.setAt > 45 * 60 * 1000) => lastGet.result = Null
        /\ lastGet.setAt < 0 => lastGet.result = Null

\* C5 is exercised: a read of a key whose non-empty entry has aged past 45 minutes
\* returns null, after a read that followed its setCache at once returned the list
C5_Witness ==
    /\ lastGet # NoCall
    /\ lastGet.setAt >= 0
    /\ lastGet.data # <<>>
    /\ lastGet.at - lastGet.setAt > 45 * 60 * 1000
    /\ lastGet.result = Null

\* C5 is exercised: a read with no clock advance after the write returns the list written
C5_WitnessFresh ==
    /\ lastGet # NoCall
    /\ lastGet.setAt = lastGet.at
    /\ lastGet.at > 0
    /\ lastGet.data # <<>>
    /\ lastGet.result = Arr(lastGet.data)

\* C4: if during a getCandidatesFromSpec call every adapter that searchProducts
\* called for a category failed or returned an empty list, the step that ends that
\* search writes no cache entry for the category's key (so that the next call for the
\* category, even within 45 minutes, misses the cache and tries the adapters again).
C4_FailureNotCached ==
    [][\A r \in Reqs :
          (/\ req[r].pc \in {"rapid", "apify", "settled"}
           /\ req'[r].pc = "loop"
           /\ AllAdaptersFailed(req'[r].call))
          => LET key == cacheKey(req[r].cats[req[r].i])
             IN CACHE'[key] = CACHE[key]]_vars

\* C9: getCandidatesFromSpec looks up or searches at most 8 distinct categories per
\* request, and they are the must_have list followed by the nice_to_have list, each
\* string kept at its first occurrence only (exact equality), cut to the first 8:
\* the lookups of a request follow that list in order, and a returned request has
\* looked up all of it.
C9_WorkingSet ==
    \A r \in Reqs :
        req[r].pc # "idle" =>
            LET all        == req[r].spec.must_have \o req[r].spec.nice_to_have
                IsFirst(p) == \A q \in 1..(p - 1) : all[q] # all[p]
                firsts     == SelectSeq([p \in 1..Len(all) |-> p], IsFirst)
                expected   == [j \in 1..Min(8, Len(firsts)) |-> all[firsts[j]]]
                looked     == req[r].looked
            IN /\ Len(looked) <= 8
               /\ Len(looked) <= Len(expected)
               /\ looked = SubSeq(expected, 1, Len(looked))
               /\ \A i, j \in 1..Len(looked) : i < j => looked[i] # looked[j]
               /\ Range(req[r].searched) \subseteq Range(looked)
               /\ Range(req[r].hits) \subseteq Range(looked)
               /\ req[r].pc = "done" => looked = expected

\* C9 is exercised: a request whose lists hold eleven entries, nine of them distinct
\* ("Bedding" and "bedding" among them), has returned after eight lookups
C9_Witness ==
    /\ req[1].pc = "done"
    /\ Len(req[1].spec.must_have \o req[1].spec.nice_to_have) = 11
    /\ Len(req[1].looked) = 8
    /\ "Bedding" \in Range(req[1].looked)
    /\ "decor" \notin Range(req[1].looked)
    /\ Len(req[1].searched) + Len(req[1].hits) = 8

\* C6: for every prompt and every optional user budget, the spec returned by
\* safeGetSpecFromAI has a finite budget in [50, 5000] dollars and a finite max_items
\* in [3, 15], whether the language model's answer was used or the static fallback
\* spec was substituted for it.
C6_SpecWithinBounds ==
    ncall.at = "returned" =>
        /\ isFinite(ncall.spec.budget)
        /\ ncall.spec.budget >= 50 * 1000
        /\ ncall.spec.budget <= 5000 * 1000
        /\ isFinite(ncall.spec.max_items)
        /\ ncall.spec.max_items >= 3
        /\ ncall.spec.max_items <= 15

\* C7: a row that lacks a name, lacks a link or yields no finite price is absent from
\* the adapter's output: the output holds no more candidates than the answer holds
\* rows with all three, and no output candidate carries the placeholder name "Item"
\* or the placeholder link "#" in place of a missing field.
C7_IncompleteRowsDropped ==
    (acall.at = "returned" /\ ~acall.out.throws) =>
        LET rows        == acall.resp.rows
            out         == acall.out.list
            Complete(r) == r.name # "" /\ r.link # "" /\ isFinite(parsePrice(OrEmpty(r.price)))
        IN /\ \A i \in 1..Len(out) : out[i].name # <<"Item">> /\ out[i].link # "#"
           /\ Len(out) <= Cardinality({i \in 1..Len(rows) : Complete(rows[i])})

\* the request is a POST whose body could not be read as an object
BodyThrows == http.method = "POST" /\ http.body.kind \in {"badjson", "jsonnull"}

\* what C10 concludes of a handled request: one response, of status 200, which is the
\* last-resort bundle with its note when the catch block ran and the bundle that
\* composeBundle returned when it did not
OneResponse200 ==
    /\ Len(http.responses) = 1
    /\ http.responses[1].status = 200
    /\ http.threw =>
          /\ "note" \in DOMAIN http.responses[1].body
          /\ http.responses[1].body.items = FallbackItems
    /\ ~http.threw =>
          /\ "note" \notin DOMAIN http.responses[1].body
          /\ cpc = "done"
          /\ http.responses[1].body.total = bundle.total
          /\ Len(http.responses[1].body.items) = Len(bundle.items)

\* C10 as stated: every POST request whose prompt is a non-empty string, or whose
\* body fails to parse, gets exactly one response, of status 200: the composed bundle
\* when the pipeline completes, the last-resort bundle with a note when a step throws.
C10_Post200 ==
    /\ Len(http.responses) <= 1
    /\ (http.pc = "done" /\ http.method = "POST" /\
        (BodyThrows \/ (http.body.kind = "object" /\ http.body.prompt.t = "str"
                          /\ http.body.prompt.chars # <<>>)))
       => OneResponse200

\* C10 as amended: every POST request whose prompt is a string that is non-empty once
\* trimmed of surrounding white space, or whose body fails to parse, gets exactly one
\* response, of status 200: the composed bundle when the pipeline completes, the
\* last-resort bundle with a note when a step throws.
C10_PostTrimmed200 ==
    /\ Len(http.responses) <= 1
    /\ http.pc # "done" => http.responses = <<>>
    /\ (http.pc = "done" /\ http.method = "POST" /\
        (BodyThrows \/ (http.body.kind = "object" /\ http.body.prompt.t = "str"
                          /\ trim(http.body.prompt.chars) # <<>>)))
       => OneResponse200

\* C10 is exercised: a POST whose body is not JSON was answered with the last-resort
\* bundle, status 200
C10_Witness ==
    /\ http.pc = "done"
    /\ http.method = "POST"
    /\ http.body.kind = "badjson"
    /\ http.threw
    /\ Len(http.responses) = 1
    /\ http.responses[1].status = 200
    /\ "note" \in DOMAIN http.responses[1].body

\* C10 is exercised: a POST with a prompt went through the whole pipeline, found some
\* category served by the primary adapter, and was answered with a composed bundle
C10_WitnessComposed ==
    /\ http.pc = "done"
    /\ http.method = "POST"
    /\ ~http.threw
    /\ http.responses[1].status = 200
    /\ Len(http.responses[1].body.items) >= 3
    /\ \E i \in 1..Len(http.responses[1].body.items) :
          http.responses[1].body.items[i].source = "rapidapi"

\* a must_have category is at its turn: the coverage loop is about to offer its
\* first option
AtTurn == cpc = "coverage" /\ catI <= Len(spec.must_have) /\ optI = 1

\* the candidates of the category at its turn whose price fits the remaining budget
Affordable ==
    {i \in 1..Len(candidates) :
        /\ candidates[i].category = spec.must_have[catI]
        /\ total + candidates[i].price <= spec.budget}

\* C11, during the coverage pass: a must_have category that at its turn has a free
\* item slot and a candidate whose price fits the remaining budget gets the cheapest
\* candidate of the category selected, and the pass moves on to the next category.
C11_TurnPicksCheapest ==
    (AtTurn /\ Len(selected) < spec.max_items /\ Affordable # {})
    => /\ Len(selected') = Len(selected) + 1
       /\ SubSeq(selected', 1, Len(selected)) = selected
       /\ LET j == selected'[Len(selected')]
          IN /\ candidates[j].category = spec.must_have[catI]
             /\ \A i \in 1..Len(candidates) :
                   candidates[i].category = spec.must_have[catI]
                   => candidates[j].price <= candidates[i].price
             /\ total' = total + candidates[j].price
       /\ catI' = catI + 1

\* C11, in the returned bundle: the items of the coverage pass come first, in the
\* order of their must_have categories, and every fill-pass item comes after them.
C11_CoverageFirst ==
    cpc = "done" =>
        /\ nCov <= Len(bundle.items)
        /\ \A k \in 1..nCov : candidates[bundle.items[k]].category \in Range(spec.must_have)
        /\ \E pos \in [1..nCov -> 1..Len(spec.must_have)] :
              /\ \A k \in 1..nCov : spec.must_have[pos[k]] = candidates[bundle.items[k]].category
              /\ \A k \in 1..(nCov - 1) : pos[k] < pos[k + 1]

\* C11: for each must_have category taken in spec order that, at its turn, still has
\* a free item slot and at least one candidate whose price fits the remaining budget,
\* composeBundle selects the cheapest candidate of that category; all items selected
\* this way precede every fill-pass item in the returned items list.
C11_CoverageCheapestFirst == [][C11_TurnPicksCheapest]_vars /\ []C11_CoverageFirst

\* C11 is exercised: for must_have [bedding, lighting] and a pool whose first bedding
\* candidate is dearer than its second, the bundle holds the cheaper bedding candidate,
\* then the lighting candidate, then a fill-pass item
C11_Witness ==
    /\ cpc = "done"
    /\ spec.must_have = <<"bedding", "lighting">>
    /\ Len(candidates) = 4
    /\ candidates[1].category = "bedding" /\ candidates[2].category = "bedding"
    /\ candidates[1].price > candidates[2].price
    /\ candidates[3].category = "lighting"
    /\ nCov = 2
    /\ Len(bundle.items) = 3
    /\ bundle.items[1] = 2
    /\ bundle.items[2] = 3

ItemsFor(r, cat) ==
    LET IsCat(x) == x.category = cat
        got      == SelectSeq(req[r].results, IsCat)
    IN [j \in 1..Len(got) |->
          [name |-> got[j].name, price |-> got[j].price, link |-> got[j].link,
           source |-> got[j].source]]

\* C13: under every interleaving of overlapping requests at the await points of
\* getCandidatesFromSpec, the entry stored for a key is at all times either absent or
\* exactly the timestamp and the complete list of one single setCache call, and the
\* list a request was served from the cache is the complete list of one single
\* setCache call for that key, never a mix of two.
C13_EntryIsOneWrite ==
    /\ \A k \in CacheKeys :
          CACHE[k] # NoEntry =>
              \E w \in writes : w.key = k /\ w.at = CACHE[k].ts /\ w.data = CACHE[k].data
    /\ \A r \in Reqs : \A j \in 1..Len(req[r].hits) :
          \E w \in writes : w.key = cacheKey(req[r].hits[j]) /\ w.data = ItemsFor(r, req[r].hits[j])

\* C13 is exercised: two overlapping requests both missed the key "bedding" and both
\* wrote it at the same time with different lists, and the entry is one of the two
C13_Witness ==
    /\ \E w1, w2 \in writes :
          /\ w1.key = "bedding" /\ w2.key = "bedding"
          /\ w1.at = w2.at
          /\ w1.data # w2.data
          /\ CACHE["bedding"].data = w2.data
    /\ \A r \in Reqs : req[r].pc = "done"

\* C13 is exercised: a request was served from the cache the list that the other wrote
C13_WitnessHit ==
    /\ req[2].hits = <<"Bedding">>
    /\ req[1].searched # <<>>
    /\ "bedding" \in Range(req[1].searched)
    /\ Len(req[2].results) = 3

\* C14: setCache(key, v2) on a key that already holds an entry, valid or expired,
\* replaces it: a later getCache(key) returns v2 and never the earlier list, for as
\* long as less than 45 minutes have passed since this latest setCache, and returns
\* null from then on, whatever the age of the entry written over.
C14_LatestSetWins ==
    (lastGet # NoCall /\ lastGet.setAt >= 0 /\ lastGet.over.ts >= 0) =>
        /\ lastGet.at - lastGet.setAt < 45 * 60 * 1000 => lastGet.result = Arr(lastGet.data)
        /\ lastGet.at - lastGet.setAt >= 45 * 60 * 1000 => lastGet.result = Null
        /\ CACHE[lastGet.key].ts = lastSet[lastGet.key].at
        /\ CACHE[lastGet.key].data = lastSet[lastGet.key].data

\* C14 is exercised: a list was written over a valid entry holding another list, and
\* a read made later, within 45 minutes of the write, returned the new list
C14_Witness ==
    /\ lastGet # NoCall
    /\ lastGet.over.ts >= 0
    /\ lastGet.setAt - lastGet.over.ts < 45 * 60 * 1000
    /\ lastGet.over.data # lastGet.data
    /\ lastGet.at > lastGet.setAt
    /\ lastGet.result = Arr(lastGet.data)

\* C14 is exercised: a list was written over an expired entry holding another list,
\* and a read returned the new list
C14_WitnessExpired ==
    /\ lastGet # NoCall
    /\ lastGet.over.ts >= 0
    /\ lastGet.setAt - lastGet.over.ts >= 45 * 60 * 1000
    /\ lastGet.over.data # lastGet.data
    /\ lastGet.result = Arr(lastGet.data)

\* C15: apifyRetailSearch returns a list only after a poll observed SUCCEEDED, and that
\* poll was answered before the 15000 ms deadline (counted from t0); a poll that
\* observes FAILED, ABORTED or TIMED_OUT ends the call with an error at once, no
\* further poll and no dataset request being made.
C15_SucceededBeforeDeadline ==
    /\ arun.at \in {"dataset", "returned"} => arun.seen = "SUCCEEDED"
    /\ arun.at = "returned" => arun.seenAt - arun.t0 < maxWaitMs
    /\ arun.seen \in {"FAILED", "ABORTED", "TIMED_OUT"} => arun.at = "threw" /\ arun.fetched = 0

\* the parts of C15 that do not involve the deadline
C15_OnlyAfterSucceeded ==
    /\ arun.at \in {"dataset", "returned"} => arun.seen = "SUCCEEDED"
    /\ arun.seen \in {"FAILED", "ABORTED", "TIMED_OUT"} => arun.at = "threw" /\ arun.fetched = 0

\* C16: an adapter call never returns an empty list: it fails with an error on a
\* network failure, a non-success status and a malformed payload, and also whenever
\* no row of the upstream answer survives normalization.
C16_FailsOnZeroRows ==
    acall.at = "returned" =>
        /\ acall.resp.kind \in {"neterr", "status", "badjson", "startfail", "failed", "timeout"}
               => acall.out.throws
        /\ ~acall.out.throws => acall.out.list # <<>>

\* C17: the list an adapter returns is sorted ascending by price, has at most `limit`
\* entries, and consists of the `limit` cheapest rows that survive normalization:
\* its entries are distinct surviving rows, as many as there are up to `limit`, and
\* no surviving row left out is cheaper than an entry.
C17_CheapestSortedWithinLimit ==
    (acall.at = "returned" /\ ~acall.out.throws) =>
        LET rows   == acall.resp.rows
            out    == acall.out.list
            source == IF acall.adapter = "rapid" THEN "rapidapi" ELSE "apify"
            mapped == [i \in 1..Len(rows) |-> normalizeRow(rows[i], source)]
            kept   == {i \in 1..Len(rows) : keepItem(mapped[i])}
        IN /\ \A i, j \in 1..Len(out) : i < j => out[i].price <= out[j].price
           /\ Len(out) <= acall.limit
           /\ Len(out) = Min(acall.limit, Cardinality(kept))
           /\ \E f \in [1..Len(out) -> kept] :
                 /\ \A i, j \in 1..Len(out) : i # j => f[i] # f[j]
                 /\ \A i \in 1..Len(out) : out[i] = mapped[f[i]]
                 /\ \A k \in kept \ Range(f) : \A i \in 1..Len(out) : out[i].price <= mapped[k].price

\* two rows survive, the dearer one first, and the limit leaves room for one
C17_Witness ==
    /\ acall.at = "returned" /\ ~acall.out.throws /\ acall.limit = 1
    /\ Len(acall.resp.rows) = 2
    /\ parsePrice(OrEmpty(acall.resp.rows[1].price)) = 24990
    /\ parsePrice(OrEmpty(acall.resp.rows[2].price)) = 13990
    /\ Len(acall.out.list) = 1 /\ acall.out.list[1].price = 13990

\* C18: searchProducts attempts the primary adapter before the secondary, each at
\* most once; a non-empty list from the primary is the result and the secondary is
\* not called; the secondary is called only after the primary was skipped, failed or
\* returned empty; placeholders are produced only after the secondary was skipped,
\* failed or returned empty (and the primary likewise).
C18_ChainInOrder ==
    LET calls == scall.calls
        got   == scall.got
        primaryDone   == calls # <<>> /\ calls[1] = "rapid" /\ Len(got) >= 1
        secondaryPass == IF "apify" \in Range(calls)
                         THEN Len(got) = Len(calls) /\ got[Len(got)] \in {"throw", "empty"}
                         ELSE ~APIFY_ENABLED(env)
        primaryPass   == IF "rapid" \in Range(calls)
                         THEN Len(got) >= 1 /\ got[1] \in {"throw", "empty"}
                         ELSE ~RAPIDAPI_ENABLED(env)
    IN /\ calls \in {<<>>, <<"rapid">>, <<"apify">>, <<"rapid", "apify">>}
       /\ (primaryDone /\ got[1] = "list") =>
              scall.at = "returned" /\ calls = <<"rapid">> /\ scall.result = scall.lists[1]
       /\ "apify" \in Range(calls) => primaryPass
       /\ (scall.at = "returned" /\ \E i \in 1..Len(scall.result) : scall.result[i].source = "demo")
              => primaryPass /\ secondaryPass

\* the primary returned an empty list, the secondary was called next and its list is
\* the result
C18_Witness ==
    /\ scall.at = "returned"
    /\ scall.calls = <<"rapid", "apify">>
    /\ scall.got = <<"empty", "list">>
    /\ scall.result = scall.lists[2]
    /\ \A i \in 1..Len(scall.result) : scall.result[i].source = "apify"

\* the primary's list was returned without a call of the secondary, which is configured
C18_WitnessPrimary ==
    /\ scall.at = "returned" /\ APIFY_ENABLED(env)
    /\ scall.calls = <<"rapid">> /\ scall.got = <<"list">> /\ Len(scall.result) > 1

\* C19: searchProducts calls an adapter only when both of its credentials are set
\* (RapidAPI: key and host; Apify: token and actor id); with neither adapter fully
\* configured a search calls no adapter at all and returns the placeholders.
C19_NoCallUnconfigured ==
    /\ "rapid" \in Range(scall.calls) => env.RAPIDAPI_KEY /\ env.RAPIDAPI_HOST
    /\ "apify" \in Range(scall.calls) => env.APIFY_TOKEN /\ env.APIFY_ACTOR_ID
    /\ ( /\ scall.at # "idle"
         /\ ~(env.RAPIDAPI_KEY /\ env.RAPIDAPI_HOST)
         /\ ~(env.APIFY_TOKEN /\ env.APIFY_ACTOR_ID) )
       => /\ scall.at = "returned"
          /\ scall.calls = <<>>
          /\ scall.result # <<>>
          /\ IsPlaceholderList(scall.result, scall.query, scall.limit)

\* each adapter has one credential of its two; the search returned placeholders
\* without a call
C19_Witness ==
    /\ env.RAPIDAPI_KEY /\ ~env.RAPIDAPI_HOST
    /\ ~env.APIFY_TOKEN /\ env.APIFY_ACTOR_ID
    /\ scall.at = "returned" /\ scall.calls = <<>>
    /\ Len(scall.result) = 3 /\ scall.result[1].source = "demo"

\* the candidate that the pick about to be made is offered
Offered ==
    IF cpc = "coverage" THEN options(candidates, spec.must_have[catI])[optI]
    ELSE remaining[optI]

\* the step is a call of pick: an iteration of the coverage loop or of the fill loop
PickCalled ==
    \/ cpc = "coverage" /\ cpc' = "coverage" /\ (catI' # catI \/ optI' # optI)
           /\ options(candidates, spec.must_have[catI]) # <<>>
    \/ cpc = "fill" /\ cpc' = "fill" /\ optI' # optI

C20_PickStep ==
    PickCalled =>
        LET p == candidates[Offered].price
        IN IF Len(selected) < spec.max_items /\ p # NaN /\ total + p <= spec.budget
           THEN selected' = Append(selected, Offered) /\ total' = total + p
           ELSE selected' = selected /\ total' = total

\* C20: every call of pick(item) inside composeBundle appends the item to selected
\* and adds its price to total if selected.length < max_items, the price is a finite
\* number and total + price <= budget, and leaves selected and total as they are
\* otherwise.
C20_PickAcceptsIff == [][C20_PickStep]_vars

\* composeBundle returned a bundle with an item in it and a free slot left, having
\* refused a candidate whose price is NaN and one that would exceed the budget
C20_Witness ==
    /\ cpc = "done" /\ bundle.items # <<>>
    /\ Len(bundle.items) < spec.max_items
    /\ \E i \in 1..Len(candidates) : candidates[i].price = NaN /\ i \notin Range(bundle.items)
    /\ \E i \in 1..Len(candidates) :
          /\ candidates[i].price # NaN /\ i \notin Range(bundle.items)
          /\ total + candidates[i].price > spec.budget

\* the items selected by the coverage pass have pairwise different categories
CoverageOnePerCategory ==
    \A i, j \in 1..nCov :
        i < j => candidates[selected[i]].category # candidates[selected[j]].category

\* C21: when the coverage pass of composeBundle ends, no two selected items share
\* the same category.
C21_OnePerMustHave == cpc \in {"fill", "done"} => CoverageOnePerCategory

\* C21 restricted to specs whose must_have names no category twice
C21_OnePerUniqueMustHave ==
    (cpc \in {"fill", "done"}
     /\ \A i, j \in 1..Len(spec.must_have) : i < j => spec.must_have[i] # spec.must_have[j])
    => CoverageOnePerCategory

\* once the coverage pass is over, `remaining` holds every candidate that the
\* coverage pass did not select, once, cheapest first
C22_RemainingSorted ==
    cpc \in {"fill", "done"} =>
        /\ Range(remaining) = (1..Len(candidates)) \ {selected[k] : k \in 1..nCov}
        /\ \A i, j \in 1..Len(remaining) : i < j => remaining[i] # remaining[j]
        /\ \A i, j \in 1..Len(remaining) :
              i < j => candidates[remaining[i]].price <= candidates[remaining[j]].price

\* a step of the fill pass offers pick the next candidate of `remaining`, and the
\* bundle is returned only when the last one has been offered
C22_FillStep ==
    /\ (cpc = "fill" /\ cpc' = "fill" /\ optI' # optI) =>
          /\ optI' = optI + 1
          /\ selected' \in {selected, Append(selected, remaining[optI])}
    /\ (cpc = "fill" /\ cpc' = "done") => optI = Len(remaining) + 1

\* the items the fill pass added to the returned bundle are in non-decreasing price
\* order
C22_FillItemsAscending ==
    cpc = "done" =>
        \A i, j \in (nCov + 1)..Len(bundle.items) :
            i < j => candidates[bundle.items[i]].price <= candidates[bundle.items[j]].price

\* C22: after the coverage pass composeBundle offers every not yet selected
\* candidate, of every category, to pick exactly once and in ascending price order;
\* the fill-pass items of the result are in non-decreasing price order.  (For budget
\* 60, max_items 2, must_have [bedding] and the pool bedding 79.99, bedding 24.99,
\* lighting 24.99, lighting 13.99 the result is bedding 24.99, lighting 13.99,
\* total 38.98: C22_Witness.)
C22_FillCheapestFirst ==
    [][C22_FillStep]_vars /\ []C22_RemainingSorted /\ []C22_FillItemsAscending

\* the end-to-end scenario and its result
C22_Witness ==
    /\ cpc = "done"
    /\ spec.budget = Usd(60) /\ spec.max_items = 2 /\ spec.must_have = <<"bedding">>
    /\ candidates = << [category |-> "bedding", price |-> 79990],
                       [category |-> "bedding", price |-> 24990],
                       [category |-> "lighting", price |-> 24990],
                       [category |-> "lighting", price |-> 13990] >>
    /\ remaining = <<4, 3, 1>>
    /\ bundle.items = <<2, 4>>
    /\ bundle.total = 38980

\* what composeBundle returned is a bundle of the spec: its title and budget, items of
\* the pool, every must_have category and every remaining candidate having been
\* processed
C23_ReturnsBundle ==
    /\ cpc \in {"coverage", "fill", "done"}
    /\ cpc = "done" =>
          /\ bundle # NoBundle
          /\ bundle.title = spec.title /\ bundle.budget = spec.budget
          /\ Range(bundle.items) \subseteq 1..Len(candidates)
          /\ catI = Len(spec.must_have) + 1
          /\ optI = Len(remaining) + 1

\* a must_have category no candidate of which fits the budget left (or that has no
\* candidate at all) adds no item, and the coverage loop goes on with it or with
\* the next category
C23_NoFitStep ==
    (cpc = "coverage" /\ catI <= Len(spec.must_have) /\ Affordable = {})
    => /\ selected' = selected /\ total' = total
       /\ cpc' = "coverage"
       /\ catI' \in {catI, catI + 1}

\* C23: composeBundle returns a bundle for every spec and candidate pool, the empty
\* pool, a pool no candidate of which fits the budget and must_have categories
\* without a candidate included; a must_have category without an affordable
\* candidate contributes no item and stops neither the later categories nor the
\* fill pass.
C23_NeverFailsForLackOfFit ==
    <>(cpc = "done") /\ []C23_ReturnsBundle /\ [][C23_NoFitStep]_vars

\* the first must_have category has a candidate but none that fits the budget, the
\* second one got its item, and the fill pass ran
C23_Witness ==
    /\ cpc = "done"
    /\ spec.must_have = <<"bedding", "lighting">>
    /\ \E i \in 1..Len(candidates) : candidates[i].category = "bedding"
    /\ \A i \in 1..Len(candidates) :
          candidates[i].category = "bedding" => candidates[i].price > spec.budget
    /\ nCov = 1 /\ candidates[bundle.items[1]].category = "lighting"

\* the pool is empty and the bundle returned is
C23_WitnessEmptyPool ==
    cpc = "done" /\ candidates = <<>> /\ spec.must_have # <<>> /\ bundle.items = <<>>
       /\ bundle.total = 0

\* the sum of the prices of the candidates at the positions sel, one term per entry
RECURSIVE SumPrices(_, _)
SumPrices(sel, cands) ==
    IF sel = <<>> THEN 0 ELSE cands[Head(sel)].price + SumPrices(Tail(sel), cands)

\* C24: during composition the running total is the sum of the prices of the running
\* selection, and the total of a returned bundle is the sum of the prices of the
\* candidates in its items, rounded to 2 decimals.
C24_TotalIsSumOfItems ==
    /\ total = SumPrices(selected, candidates)
    /\ cpc = "done" =>
          /\ bundle.items = selected
          /\ bundle.total = toFixed2(SumPrices(bundle.items, candidates))

\* a bundle of two items whose exact sum, 63.996, is not a whole number of cents
C24_Witness ==
    /\ cpc = "done" /\ Len(bundle.items) = 2
    /\ total = 63996 /\ bundle.total = 64000

\* the category a request is at, and whether the cache holds a valid entry for it
CatAt(r) == req[r].cats[req[r].i]

ValidAt(r) ==
    /\ CACHE[cacheKey(CatAt(r))] # NoEntry
    /\ now - CACHE[cacheKey(CatAt(r))].ts < 45 * 60 * 1000

\* a request's turn of the loop: on a valid entry the cached list is used and
\* searchProducts is not called; otherwise searchProducts is called
C25_LookupStep ==
    \A r \in Reqs :
        (req[r].pc = "loop" /\ req[r].i <= Len(req[r].cats) /\ req'[r] # req[r]) =>
            IF ValidAt(r)
            THEN /\ req'[r].hits = Append(req[r].hits, CatAt(r))
                 /\ req'[r].searched = req[r].searched
                 /\ req'[r].call = req[r].call
                 /\ req'[r].results =
                        req[r].results \o tagged(CACHE[cacheKey(CatAt(r))].data, CatAt(r))
                 /\ req'[r].i = req[r].i + 1 /\ req'[r].pc = "loop"
            ELSE /\ req'[r].hits = req[r].hits
                 /\ req'[r].searched = Append(req[r].searched, CatAt(r))

\* the step in which the result of searchProducts reaches the loop moves the request
\* on to the next category, and in that same step a non-empty result is stored under
\* the category's key
C25_SettleStep ==
    \A r \in Reqs :
        (/\ req[r].pc \in {"loop", "rapid", "apify", "settled"}
         /\ req[r].i <= Len(req[r].cats)
         /\ req'[r].i = req[r].i + 1
         /\ req'[r].hits = req[r].hits)
        => LET items == req'[r].call.result
           IN /\ req'[r].call.at = "returned"
              /\ req'[r].results = req[r].results \o tagged(items, CatAt(r))
              /\ items # <<>> =>
                    CACHE'[cacheKey(CatAt(r))] = [ts |-> now, data |-> items]

\* every category looked up was served from the cache or searched, and none was
\* searched twice; a request waiting for an adapter is at the category searched last
C25_SearchedOnce ==
    \A r \in Reqs :
        /\ Len(req[r].looked) = Len(req[r].hits) + Len(req[r].searched)
        /\ \A i, j \in 1..Len(req[r].searched) : i < j => req[r].searched[i] # req[r].searched[j]
        /\ Range(req[r].hits) \cap Range(req[r].searched) = {}
        /\ req[r].pc \in {"rapid", "apify", "settled"} =>
              req[r].searched[Len(req[r].searched)] = CatAt(r)

\* the second of two calls that do not overlap, for the same categories, searches
\* nothing as long as no list stored is 45 minutes old
C25_SecondCallAllHits ==
    (/\ req[2].pc # "idle"
     /\ req[2].cats = req[1].cats
     /\ \A w \in writes : now - w.at < 45 * 60 * 1000)
    => req[2].searched = <<>> /\ req[2].hits = req[2].looked

\* C25: in getCandidatesFromSpec, a category whose key has a valid cache entry is
\* served the cached list without a call of the fallback chain; for any other the
\* chain is called exactly once and a non-empty result is stored under the key
\* before the next category is processed.  Two calls for the same categories that
\* do not overlap and are less than 45 minutes apart make no call of the chain in
\* the second.
C25_CacheOrFetchOnce ==
    /\ [][C25_LookupStep /\ C25_SettleStep]_vars
    /\ [](C25_SearchedOnce /\ C25_SecondCallAllHits)

\* the second call, made after the first returned and after the clock advanced,
\* was served both categories from the cache
C25_Witness ==
    /\ req[1].pc = "done" /\ req[2].pc = "done"
    /\ req[1].cats = <<"bedding", "lighting">> /\ req[2].cats = req[1].cats
    /\ req[1].searched = <<"bedding", "lighting">>
    /\ req[2].hits = <<"bedding", "lighting">> /\ req[2].searched = <<>>
    /\ \E w \in writes : now > w.at /\ now - w.at < 45 * 60 * 1000
    /\ Len(req[2].results) > 0

\* the second call came 45 minutes or more after the first and searched again
C25_WitnessExpired ==
    /\ req[1].pc = "done" /\ req[2].pc = "done"
    /\ req[2].cats = req[1].cats
    /\ req[1].searched = <<"bedding", "lighting">>
    /\ req[2].searched = <<"bedding", "lighting">>

\* the place of a category in a request's de-duplicated category sequence
CatIndex(r, c) == CHOOSE i \in 1..Len(req[r].cats) : req[r].cats[i] = c

\* the candidates gathered so far carry categories already processed, appear grouped
\* by category in the order of the de-duplicated sequence, and each group is, in
\* order, a list stored for the category's key (the cached list, or the fetched
\* list, which is stored as it is fetched)
C26_GroupedInOrder ==
    \A r \in Reqs :
        LET res  == req[r].results
            done == {req[r].cats[i] : i \in 1..(req[r].i - 1)}
        IN /\ \A j \in 1..Len(res) : res[j].category \in done
           /\ \A j, k \in 1..Len(res) :
                 j < k => CatIndex(r, res[j].category) <= CatIndex(r, res[k].category)
           /\ \A c \in done :
                 \E w \in writes : w.key = cacheKey(c) /\ w.data = ItemsFor(r, c)

\* a step that adds candidates adds them after those gathered before, all with the
\* category being processed
C26_AppendStep ==
    \A r \in Reqs :
        (req[r].pc # "idle" /\ req'[r].results # req[r].results) =>
            /\ Len(req'[r].results) > Len(req[r].results)
            /\ SubSeq(req'[r].results, 1, Len(req[r].results)) = req[r].results
            /\ \A j \in (Len(req[r].results) + 1)..Len(req'[r].results) :
                  req'[r].results[j].category = CatAt(r)

\* C26: every candidate in the list returned by getCandidatesFromSpec carries the
\* category it was looked up or fetched for; the candidates appear grouped by
\* category in the order of the de-duplicated category sequence, each group in the
\* order of the cached or fetched list.
C26_TaggedGroupedByCategory == []C26_GroupedInOrder /\ [][C26_AppendStep]_vars

\* a returned list of two groups of three: bedding, fetched, then lighting, fetched;
\* and the other request's single category "Bedding" served from the entry of
\* "bedding"
C26_Witness ==
    /\ req[1].pc = "done" /\ req[2].pc = "done"
    /\ Len(req[1].results) = 6
    /\ req[1].results[3].category = "bedding" /\ req[1].results[4].category = "lighting"
    /\ req[1].results[4].price < req[1].results[6].price
    /\ req[2].hits = <<"Bedding">>
    /\ Len(req[2].results) = 3 /\ req[2].results[1].category = "Bedding"

\* C27: a cache entry is valid exactly while now - timestamp < 45 minutes: getCache
\* returns the stored list at every age strictly below 45 minutes, and null at the
\* age of exactly 45 minutes and at every greater age.
C27_ValidStrictlyBelowTTL ==
    (lastGet # NoCall /\ lastGet.setAt >= 0) =>
        lastGet.result = IF lastGet.at - lastGet.setAt < 45 * 60 * 1000
                         THEN Arr(lastGet.data)
                         ELSE Null

\* a read at the age of exactly 45 minutes returned null
C27_Witness ==
    /\ lastGet # NoCall /\ lastGet.setAt >= 0
    /\ lastGet.at - lastGet.setAt = 45 * 60 * 1000
    /\ lastGet.result = Null

\* a read one millisecond before that age returned the list
C27_WitnessLastValid ==
    /\ lastGet # NoCall /\ lastGet.setAt >= 0
    /\ lastGet.at - lastGet.setAt = 45 * 60 * 1000 - 1
    /\ lastGet.result = Arr(lastGet.data)

\* a getCache call leaves the store as it is; a step that changes the store is a
\* setCache call, and changes the entry of its key only
C28_StoreStep ==
    /\ lastGet' # lastGet => CACHE' = CACHE
    /\ CACHE' # CACHE =>
          \E k \in DirectKeys :
              /\ lastSet'[k] # lastSet[k]
              /\ lastSet'[k].at = now
              /\ CACHE' = [CACHE EXCEPT ![k] = [ts |-> now, data |-> lastSet'[k].data]]

\* the store holds for each key what the last setCache call for it wrote, with the
\* time of that call, whatever its age and whatever reads there were
C28_StoreIsLastSet ==
    \A k \in DirectKeys :
        IF lastSet[k] = NoCall THEN CACHE[k] = NoEntry
        ELSE CACHE[k] = [ts |-> lastSet[k].at, data |-> lastSet[k].data]

\* C28: getCache never changes the store: it neither removes an expired entry nor
\* refreshes the timestamp of an entry it returns; the store is changed by setCache
\* only, so that an entry written at time t is absent from t + 45 minutes on
\* whatever reads there were in between.
C28_GetCacheReadsOnly == [][C28_StoreStep]_vars /\ []C28_StoreIsLastSet

\* a read found the entry expired and the entry is still in the store, as written
C28_Witness ==
    /\ lastGet # NoCall /\ lastGet.setAt >= 0
    /\ lastGet.at - lastGet.setAt >= 45 * 60 * 1000
    /\ lastGet.result = Null
    /\ lastSet[lastGet.key].at = lastGet.setAt
    /\ CACHE[lastGet.key] = [ts |-> lastGet.setAt, data |-> lastGet.data]

\* a read later than the write returned the list and the entry kept its timestamp
C28_WitnessNoRefresh ==
    /\ lastGet # NoCall /\ lastGet.setAt >= 0
    /\ lastGet.at > lastGet.setAt
    /\ lastGet.result = Arr(lastGet.data)
    /\ lastSet[lastGet.key].at = lastGet.setAt
    /\ CACHE[lastGet.key].ts = lastGet.setAt

\* the adapter calls of a request's current searchProducts call that have not
\* settled yet
InFlight(r) == Len(req[r].call.calls) - Len(req[r].call.got)

\* a request has started the step of one category more than it has completed
\* exactly while it awaits searchProducts; one adapter call is in flight while it
\* awaits an adapter, and none once searchProducts has returned; at every other
\* moment every step started is completed and no adapter call is in flight
C29_OneInFlight ==
    \A r \in Reqs :
        IF req[r].pc \in {"rapid", "apify"}
        THEN /\ Len(req[r].looked) = req[r].i
             /\ InFlight(r) = 1
             /\ req[r].call.calls[Len(req[r].call.calls)] = req[r].pc
        ELSE IF req[r].pc = "settled"
        THEN /\ Len(req[r].looked) = req[r].i
             /\ InFlight(r) = 0
        ELSE /\ Len(req[r].looked) = req[r].i - 1
             /\ InFlight(r) = 0

\* the step of a category starts only when the request is at the head of its loop,
\* the step of the previous category completed; an adapter is called only when no
\* adapter call of the request is in flight
C29_StartStep ==
    \A r \in Reqs :
        /\ Len(req'[r].looked) > Len(req[r].looked) =>
              /\ req[r].pc = "loop" /\ InFlight(r) = 0
              /\ Len(req[r].looked) = req[r].i - 1
              /\ Len(req'[r].looked) = Len(req[r].looked) + 1
        /\ (req[r].pc \in {"rapid", "apify"} /\ req'[r] # req[r]) =>
              /\ Len(req'[r].call.got) = Len(req[r].call.got) + 1
              /\ Len(req'[r].call.calls) <= Len(req[r].call.calls) + 1

\* C29: within one request getCandidatesFromSpec processes the categories strictly
\* one at a time: the cache-or-fetch step of a category starts only after the step of
\* the previous category has completed, so that at every moment at most one
\* fallback-chain call, and inside it at most one adapter call, is in flight per
\* request.
C29_OneCategoryAtATime == []C29_OneInFlight /\ [][C29_StartStep]_vars

\* two overlapping requests each await an adapter, the first one for its second
\* category
C29_Witness ==
    /\ req[1].pc = "apify" /\ req[2].pc = "rapid"
    /\ req[1].i = 2 /\ Len(req[1].looked) = 2
    /\ req[1].call.calls = <<"rapid", "apify">> /\ Len(req[1].call.got) = 1

\* C30: every candidate an adapter returns (and with it every candidate stored in
\* the cache or passed to composeBundle) has a finite, non-negative price, whatever
\* the upstream rows, rows whose price is a negative number or a non-numeric string
\* included.
C30_PricesFiniteNonNegative ==
    (acall.at = "returned" /\ ~acall.out.throws) =>
        \A i \in 1..Len(acall.out.list) :
            isFinite(acall.out.list[i].price) /\ acall.out.list[i].price >= 0

\* the part of C30 that holds: every price returned is finite
C30_PricesFinite ==
    (acall.at = "returned" /\ ~acall.out.throws) =>
        \A i \in 1..Len(acall.out.list) : acall.out.list[i].price # NaN

\* a step taken after the abort leaves the polling loop alone: no status poll is
\* answered, no wait is begun and no pending status request is carried on
C31_AbortStep ==
    arun.aborted =>
        /\ arun'.polls = arun.polls
        /\ arun'.at = "poll" => arun.at = "poll"
        /\ arun.at = "poll" => arun'.at = "poll"

\* C31: once the enclosing request is aborted while apifyRetailSearch is polling, the
\* polling loop stops: no wait is begun and no status poll of the job is made or
\* answered after the abort.
C31_NoPollAfterAbort == [][C31_AbortStep]_vars

\* a status poll answered, and the next wait about to begin, after the abort
C31_PolledAfterAbort ==
    arun.aborted /\ arun.polls = 2 /\ arun.at = "loop"

\* the fields of a candidate as an adapter or the demo list builds it
AdapterFields == {"name", "price", "link", "source"}

\* every list in the cache is a list as searchProducts returned it: no candidate of
\* it carries a category
C32_CachedUntagged ==
    \A k \in CacheKeys :
        \A j \in 1..Len(CACHE[k].data) : DOMAIN CACHE[k].data[j] = AdapterFields

\* an entry changes only by the setCache call of that step, which stores the list
\* searchProducts returned; the candidates pushed to `results` are copies that
\* carry the category
C32_CacheStep ==
    /\ \A k \in CacheKeys :
          CACHE'[k] # CACHE[k] =>
              \E w \in writes' \ writes :
                  w.key = k /\ CACHE'[k] = [ts |-> w.at, data |-> w.data]
    /\ \A r \in Reqs :
          \A j \in 1..Len(req'[r].results) :
              DOMAIN req'[r].results[j] = AdapterFields \cup {"category"}

\* composeBundle leaves the pool it received, and the list the aggregation returned,
\* as they are
C32_PoolStep ==
    cpc \notin {"idle", "done"} =>
        /\ candidates' = candidates
        /\ \A r \in Reqs : req'[r].results = req[r].results
        /\ \E r \in Reqs : req[r].pc = "done" /\ candidates = req[r].results

\* C32: candidates are never mutated after construction: getCandidatesFromSpec
\* attaches the category to a copy of each candidate, so a list stored in the cache
\* is left unchanged by every later aggregation (its candidates never gain or change
\* a category), and composeBundle leaves the pool it receives unchanged in content
\* and order.
C32_CandidatesNeverMutated ==
    []C32_CachedUntagged /\ [][C32_CacheStep]_vars /\ [][C32_PoolStep]_vars

\* a cached list served to a second request under its category, and a bundle
\* composed from the aggregated pool
C32_Witness ==
    /\ req[2].hits # <<>>
    /\ req[2].results # <<>>
    /\ req[2].pc = "done"
    /\ cpc = "done"
    /\ bundle.items # <<>>
    /\ Len(bundle.items) < Len(candidates)

\* C33: no candidate of the pool is selected twice by composeBundle: each candidate
\* passed in appears at most once in the returned items list.
C33_NoCandidateTwice ==
    cpc = "done" =>
        \A i, j \in 1..Len(bundle.items) : i < j => bundle.items[i] # bundle.items[j]

\* the part of C33 that holds on every spec: the fill pass selects no candidate that
\* the coverage pass selected, and no candidate twice
C33_FillExcludesCoverage ==
    cpc = "done" =>
        \A i, j \in 1..Len(bundle.items) :
            (i < j /\ j > nCov) => bundle.items[i] # bundle.items[j]

\* C33 restricted to specs whose must_have names no category twice
C33_NoCandidateTwiceUniqueMustHave ==
    (cpc = "done"
     /\ \A i, j \in 1..Len(spec.must_have) : i < j => spec.must_have[i] # spec.must_have[j])
    => \A i, j \in 1..Len(bundle.items) : i < j => bundle.items[i] # bundle.items[j]

\* the candidates of the pool that are not in the returned items
Unselected == {i \in 1..Len(candidates) : i \notin Range(bundle.items)}

\* C34: on a pool whose prices are finite and not negative, the bundle composeBundle
\* returns is maximal: either it holds max_items items, or every candidate that is
\* not in it costs more than what is left of the budget (budget minus the running
\* total), so none could still be added without breaking a cap.
C34_BundleMaximal ==
    (cpc = "done"
     /\ \A i \in 1..Len(candidates) : isFinite(candidates[i].price) /\ candidates[i].price >= 0)
    => \/ Len(bundle.items) = spec.max_items
       \/ \A i \in Unselected : candidates[i].price > spec.budget - total

\* a bundle below the item cap that leaves a candidate out for its price, the
\* budget being met exactly
C34_Witness ==
    /\ cpc = "done"
    /\ Len(bundle.items) < spec.max_items
    /\ bundle.items # <<>>
    /\ Unselected # {}
    /\ total = spec.budget

\* a bundle at the item cap that leaves out a candidate the budget would allow
C34_WitnessAtCap ==
    /\ cpc = "done"
    /\ Len(bundle.items) = spec.max_items
    /\ \E i \in Unselected : candidates[i].price <= spec.budget - total

\* the positions of uniqueCats whose category has the key of an earlier one
SameKeyPairs(r) ==
    {pq \in (1..Len(req[r].cats)) \X (1..Len(req[r].cats)) :
        /\ pq[1] < pq[2]
        /\ cacheKey(req[r].cats[pq[1]]) = cacheKey(req[r].cats[pq[2]])
        /\ \A o \in 1..(pq[1] - 1) : cacheKey(req[r].cats[o]) # cacheKey(req[r].cats[pq[1]])}

\* C35: two categories of one spec that differ only in letter case are two
\* categories to getCandidatesFromSpec and one cache key: on a cold cache, and while
\* the entry written for the first spelling is younger than 45 minutes, the chain is
\* called for the first spelling only, the second spelling is served from that
\* entry, and the returned list holds the same candidates once under each
\* spelling's category.
C35_CaseVariantsShareEntry ==
    \A r \in Reqs :
        (req[r].pc = "done" /\ now < TTL_MS) =>
            /\ Range(req[r].spec.must_have) \cup Range(req[r].spec.nice_to_have)
                  = Range(req[r].cats)
            /\ \A pq \in SameKeyPairs(r) :
                  LET first  == req[r].cats[pq[1]]
                      second == req[r].cats[pq[2]]
                      ws     == {w \in writes : w.key = cacheKey(first)}
                  IN /\ first # second
                     /\ first \in Range(req[r].searched)
                     /\ second \notin Range(req[r].searched)
                     /\ second \in Range(req[r].hits)
                     /\ Cardinality(ws) = 1
                     /\ \A w \in ws :
                           /\ w.data # <<>>
                           /\ ItemsFor(r, first) = w.data
                           /\ ItemsFor(r, second) = w.data

\* "Bedding" fetched from the primary adapter, then "bedding" served from its entry:
\* the three rows appear twice in the returned list, once under each spelling
C35_Witness ==
    /\ req[1].pc = "done" /\ now < TTL_MS
    /\ req[1].cats = <<"Bedding", "lighting", "bedding">>
    /\ req[1].searched = <<"Bedding", "lighting">>
    /\ req[1].hits = <<"bedding">>
    /\ Len(req[1].results) = 9
    /\ req[1].results[1].source = "rapidapi"
    /\ req[1].results[1].category = "Bedding" /\ req[1].results[7].category = "bedding"
    /\ ItemsFor(1, "Bedding") = ItemsFor(1, "bedding")

\* the request took 45 minutes or more: the entry had expired when the second
\* spelling was looked up, and the chain was called for it as well
C35_WitnessExpired ==
    /\ req[1].pc = "done" /\ now >= TTL_MS
    /\ req[1].searched = <<"bedding", "Bedding">>

\* the largest number of iterations that can start before the deadline: one at t0
\* and one every intervalMs while less than maxWaitMs have passed
MaxPolls == (maxWaitMs - 1) \div intervalMs + 1

\* at most 13 status polls, each answered poll either decisive or allowed to loop;
\* a refused poll, and SUCCEEDED without a dataset id, have ended the call with an
\* error and without a dataset request
C36_BoundedPolls ==
    /\ arun.polls <= 13
    /\ MaxPolls = 13
    /\ (arun.polls > 0 /\ arun.seen = "") => arun.at = "threw" /\ arun.fetched = 0
    /\ (arun.seen = "SUCCEEDED" /\ ~arun.hasDs) => arun.at = "threw" /\ arun.fetched = 0

\* a status request goes out only from the head of the loop, less than 15000 ms
\* after t0 and after a wait of 1200 ms; the answer to it is counted as one poll and
\* leads back to the head of the loop only when it carried a status that is neither
\* SUCCEEDED nor FAILED, ABORTED or TIMED_OUT
C36_PollStep ==
    /\ (arun'.at = "poll" /\ arun.at # "poll") =>
          /\ arun.at = "loop"
          /\ now - arun.t0 < maxWaitMs
          /\ now' = now + intervalMs
          /\ arun'.polls = arun.polls
    /\ arun'.polls # arun.polls =>
          /\ arun.at = "poll"
          /\ arun'.polls = arun.polls + 1
    /\ (arun.at = "poll" /\ arun'.at = "loop") =>
          arun'.seen \notin {"", "SUCCEEDED", "FAILED", "ABORTED", "TIMED_OUT"}

\* C36: provided every request it makes is answered, apifyRetailSearch terminates,
\* returning a list or failing, after at most 13 status polls of the job: each poll
\* is preceded by a wait of 1200 ms, an iteration starts only while less than
\* 15000 ms have passed since polling began, and a refused status request or a
\* SUCCEEDED job without a dataset id ends polling at once with a failure.
C36_TerminatesWithinPolls ==
    /\ <>(arun.at \in {"returned", "threw"})
    /\ []C36_BoundedPolls
    /\ [][C36_PollStep]_vars

\* the deadline ended the call after thirteen polls that all found the job running
C36_Witness ==
    /\ arun.at = "threw"
    /\ arun.polls = 13
    /\ arun.seen = "RUNNING"
    /\ now - arun.t0 >= maxWaitMs

\* a SUCCEEDED job without a dataset id ended the call at its second poll
C36_WitnessNoDataset ==
    /\ arun.at = "threw"
    /\ arun.polls = 2
    /\ arun.seen = "SUCCEEDED" /\ ~arun.hasDs
    /\ arun.fetched = 0

=========================================================================
